---- MODULE Spec2Model ----
(***************************************************************************)
(* Model of the DataLex multi-model resolver (dm_core/resolver.py), of the *)
(* canonicalizer (dm_core/canonical.py), of the exit status of the         *)
(* commands gate, diff-all, resolve and resolve-project (dm_cli/main.py)   *)
(* and of the SQL importer (dm_core/importers.py).                         *)
(*                                                                         *)
(* Spec is one call of resolve_model and of to_graph_summary; SpecLive is  *)
(* Spec with weak fairness of its steps; SpecViews adds a caller of the    *)
(* unified_* views of the result; SpecProject is resolve_project and the   *)
(* two resolve commands; SpecGate is gate and diff-all.  SpecCanon is      *)
(* compile_model applied to a document, to its own result and to the       *)
(* document with a collection in another order; SpecCanonCaller is         *)
(* compile_model and a caller that writes to the items of the result.      *)
(* SpecDdl is import_sql_ddl applied to a text of CREATE TABLE statements. *)
(*                                                                         *)
(* One call of resolve_model is a run of the state machine: the root is    *)
(* loaded, the imports are walked depth first (the Python recursion is an  *)
(* explicit stack of frames), then the cycle check and the duplicate       *)
(* entity check run, and the graph summary is taken of the result.         *)
(*                                                                         *)
(* Strings are atoms, except where the code takes them apart: the `from`   *)
(* and `to` of a relationship are sequences of tokens in which "." is the  *)
(* separator, and a file path is a directory (sequence of components) and  *)
(* a file name <<model name, extension>> for "<name>.model.<ext>".         *)
(***************************************************************************)
EXTENDS Integers, Sequences, FiniteSets, TLC

VARIABLES
    disk,             \* the file system: path -> [ok, doc]
    search_dirs,      \* resolve_model's search_dirs argument (resolved)
    root_path,        \* resolve_model's root_path argument (resolved)
    pc,               \* position in resolve_model
    root_model,       \* result.root_model
    imported_models,  \* result.imported_models: ordered dict, <<[alias, model]>>
    import_graph,     \* result.import_graph: model name -> <<imported names>>
    file_map,         \* result.file_map: model name -> path
    issues,           \* result.issues
    loaded_models,    \* the per-call cache: model name -> model data
    stack,            \* frames of _resolve_imports_recursive, innermost last
    loads,            \* history: every call of load_yaml_model, in order
    lookups,          \* history: every call of _resolve_import_path, in order
    applied,          \* history: every import stored in imported_models
    summary,          \* the value returned by to_graph_summary
    returned,         \* the list a unified_* view returned last, the caller holds it
    stored_writes,    \* the keys set on objects that belong to the stored models
    document,         \* the model document given to compile_model
    canonical,        \* compile_model(document)
    recompiled,       \* compile_model(canonical)
    permuted,         \* the document with one collection in another order
    canonical_permuted,  \* compile_model(permuted)
    canonical_objects,  \* the objects the lists of `canonical` hold
    command,          \* the command line the CLI was started with
    exit_code,        \* what the command returned
    diff_calls,       \* history: the calls of semantic_diff and project_diff
    model_files,      \* resolve_project: the model files still to resolve
    results,          \* resolve_project: file path -> result
    alone,            \* file path -> result of resolve_model called on it alone
    ddl_text,         \* the SQL text given to import_sql_ddl
    ddl_model         \* the model import_sql_ddl returned

vars == <<disk, search_dirs, root_path, pc, root_model, imported_models,
          import_graph, file_map, issues, loaded_models, stack, loads,
          lookups, applied, summary, returned, stored_writes,
          document, canonical, recompiled, permuted, canonical_permuted,
          canonical_objects, command, exit_code, diff_calls, model_files, results, alone,
          ddl_text, ddl_model>>

resolver_vars == <<disk, search_dirs, root_path, pc, root_model, imported_models,
                   import_graph, file_map, issues, loaded_models, stack, loads,
                   lookups, applied, summary>>

canon_vars == <<document, canonical, recompiled, permuted, canonical_permuted,
                canonical_objects>>

cli_vars == <<command, exit_code, diff_calls>>

project_vars == <<model_files, results, alone>>

ddl_vars == <<ddl_text, ddl_model>>

aux_vars == <<cli_vars, project_vars, ddl_vars>>

view_vars == <<returned, stored_writes>>

-----------------------------------------------------------------------------
(* Bounds of the model *)

MaxRootImports == 2      \* import entries of the root, graph family
MaxSubImports == 1       \* import entries of an imported model, graph family
MaxFilterImports == 2    \* import entries of the root, filter family
MaxChain == 13           \* longest linear chain root -> m1 -> ... -> mk
MaxCopies == 2           \* files of the searched name on disk, search family
MaxRels == 1             \* relationships of the root, view family
MaxPathImports == 2      \* import entries of the root, path family
MaxItems == 2            \* items of the collection a document family varies
MaxIssues == 2           \* validation issues of a model file given to `gate`
MaxDefs == 3             \* definitions in the body of a CREATE TABLE statement

(* Program constant *)
max_depth == 10

-----------------------------------------------------------------------------
(* Generic helpers *)

Range(s) == {s[i] : i \in DOMAIN s}

SeqsUpTo(S, n) == UNION {[1..k -> S] : k \in 0..n}

RECURSIVE SeqSum(_)
SeqSum(s) == IF s = <<>> THEN 0 ELSE Head(s) + SeqSum(Tail(s))

Count(s, P(_)) == Cardinality({i \in DOMAIN s : P(s[i])})

(* Python compares strings lexicographically; the names of the model in   *)
(* ascending order.                                                        *)
LexOrder == <<"", ".git", "Customers", "Orders", "a", "b", "c", "inventory", "lib1", "lib2",
              "m1", "m10", "m11", "m12", "m13", "m14", "m15",
              "m2", "m3", "m4", "m5", "m6", "m7", "m8", "m9",
              "many_to_one", "one_to_many",
              "orders", "proj", "shared", "shared_dimensions", "yaml", "yml">>

Rank(n) == CHOOSE i \in DOMAIN LexOrder : LexOrder[i] = n

(* sorted(S) for a finite set of names *)
RECURSIVE SortedNames(_)
SortedNames(S) ==
    IF S = {} THEN <<>>
    ELSE LET m == CHOOSE x \in S : \A y \in S : Rank(x) <= Rank(y)
         IN <<m>> \o SortedNames(S \ {m})

-----------------------------------------------------------------------------
(* Documents *)

NoPath == [dir |-> <<>>, file |-> <<>>]

ModelFile(dir, name, ext) == [dir |-> dir, file |-> <<name, ext>>]

(* {}: every .get() of the code falls back to its default *)
EmptyModel == [name |-> "", imports |-> <<>>, entities |-> <<>>, relationships |-> <<>>,
               indexes |-> <<>>]

Doc(name, imports, entities, rels) ==
    [name |-> name, imports |-> imports, entities |-> entities, relationships |-> rels,
     indexes |-> <<>>]

WithIndexes(doc, indexes) == [doc EXCEPT !.indexes = indexes]

Index(name, entity) == [name |-> name, entity |-> entity]

(* an import entry; alias "" and path NoPath stand for an absent key,     *)
(* has_entities = FALSE for an absent `entities` key                       *)
Import(model, alias, has_entities, entities, path) ==
    [model |-> model, alias |-> alias, has_entities |-> has_entities,
     entities |-> entities, path |-> path]

Imp(model) == Import(model, "", FALSE, <<>>, NoPath)

Rel(name, from, to, cardinality) ==
    [name |-> name, from |-> from, to |-> to, cardinality |-> cardinality]

Issue(severity, code, args, path) ==
    [severity |-> severity, code |-> code, args |-> args, path |-> path]

(* no document, no result of compile_model *)
NoDocument == [present |-> {}]
NotCompiled == [present |-> {}]

(* no command was given, none has returned *)
NoCommand == [name |-> "none"]
NoExit == -1

(* no result, no dict in it *)
NoObjects ==
    [entities |-> <<>>, relationships |-> <<>>, indexes |-> <<>>, rules |-> <<>>,
     glossary |-> <<>>]

GoodFile(doc) == [ok |-> TRUE, doc |-> doc]
BadFile == [ok |-> FALSE, doc |-> EmptyModel]

-----------------------------------------------------------------------------
(* The directory tree; files are placed in it by Init *)

RootDir == <<"proj">>
Lib1 == <<"lib1">>
Lib2 == <<"lib2">>

DirTree == {RootDir, RootDir \o <<".git">>, RootDir \o <<"a">>, RootDir \o <<"b">>,
            Lib1, Lib1 \o <<"a">>, Lib2, Lib2 \o <<"b">>}

DirName(d) == d[Len(d)]

Parent(path) == path.dir

IsPrefix(d, s) == Len(d) <= Len(s) /\ SubSeq(s, 1, Len(d)) = d

(* sorted(search_dir.iterdir()), the directories among it *)
SortedSubdirs(d) ==
    LET names == SortedNames({DirName(s) : s \in {t \in DirTree : Len(t) = Len(d) + 1 /\ IsPrefix(d, t)}})
    IN [i \in DOMAIN names |-> d \o <<names[i]>>]

Hidden(d) == DirName(d) = ".git"

Exists(path, fs) == path \in DOMAIN fs

-----------------------------------------------------------------------------
(* _find_model_file *)

Candidates(model_name) == << <<model_name, "yaml">>, <<model_name, "yml">> >>

(* for candidate in candidates: if (d / candidate).exists(): return it *)
FirstCandidate(d, model_name, fs) ==
    LET c == Candidates(model_name)
    IN IF Exists([dir |-> d, file |-> c[1]], fs) THEN [dir |-> d, file |-> c[1]]
       ELSE IF Exists([dir |-> d, file |-> c[2]], fs) THEN [dir |-> d, file |-> c[2]]
       ELSE NoPath

(* for sub in sorted(search_dir.iterdir()): ... *)
RECURSIVE FindInSubdirs(_, _, _, _)
FindInSubdirs(subs, j, model_name, fs) ==
    IF j > Len(subs) THEN NoPath
    ELSE IF Hidden(subs[j]) THEN FindInSubdirs(subs, j + 1, model_name, fs)
    ELSE LET p == FirstCandidate(subs[j], model_name, fs)
         IN IF p # NoPath THEN p ELSE FindInSubdirs(subs, j + 1, model_name, fs)

(* for search_dir in search_dirs: the directory itself, then its subdirectories *)
RECURSIVE FindInDirs(_, _, _, _)
FindInDirs(dirs, i, model_name, fs) ==
    IF i > Len(dirs) THEN NoPath
    ELSE LET p == FirstCandidate(dirs[i], model_name, fs)
         IN IF p # NoPath THEN p
            ELSE LET q == IF dirs[i] \in DirTree
                          THEN FindInSubdirs(SortedSubdirs(dirs[i]), 1, model_name, fs)
                          ELSE NoPath
                 IN IF q # NoPath THEN q ELSE FindInDirs(dirs, i + 1, model_name, fs)

(* a search that looks into every directory before any subdirectory *)
FindDirsFirst(model_name, dirs, fs) ==
    LET direct == {i \in DOMAIN dirs : FirstCandidate(dirs[i], model_name, fs) # NoPath}
    IN IF direct # {}
       THEN FirstCandidate(dirs[CHOOSE i \in direct : \A j \in direct : i <= j], model_name, fs)
       ELSE FindInDirs(dirs, 1, model_name, fs)

_find_model_file(model_name, dirs, fs) == FindInDirs(dirs, 1, model_name, fs)

(* a lookup that searches by name when the explicit path does not exist *)
ResolveImportPathFallback(imp, root_dir, sdirs, fs) ==
    LET candidate == [dir |-> root_dir \o imp.path.dir, file |-> imp.path.file]
    IN IF imp.path # NoPath /\ Exists(candidate, fs) THEN candidate
       ELSE IF imp.model = "" THEN NoPath
       ELSE _find_model_file(imp.model, <<root_dir>> \o sdirs, fs)

(* _resolve_import_path *)
_resolve_import_path(imp, root_dir, sdirs, fs) ==
    IF imp.path # NoPath
    THEN LET candidate == [dir |-> root_dir \o imp.path.dir, file |-> imp.path.file]
         IN IF Exists(candidate, fs) THEN candidate ELSE NoPath
    ELSE IF imp.model = "" THEN NoPath
    ELSE _find_model_file(imp.model, <<root_dir>> \o sdirs, fs)

(* load_yaml_model: raises when the file is missing or does not parse *)
LoadRaises(path, fs) == ~Exists(path, fs) \/ ~fs[path].ok

load_yaml_model(path, fs) == fs[path].doc

-----------------------------------------------------------------------------
(* dicts *)

(* result.imported_models[alias] = model: a present key keeps its place *)
DictSet(d, alias, model) ==
    IF \E i \in DOMAIN d : d[i].alias = alias
    THEN [i \in DOMAIN d |-> IF d[i].alias = alias THEN [alias |-> alias, model |-> model] ELSE d[i]]
    ELSE Append(d, [alias |-> alias, model |-> model])

Aliases(d) == {d[i].alias : i \in DOMAIN d}

DictGet(d, alias) == d[CHOOSE i \in DOMAIN d : d[i].alias = alias].model

(* sorted(self.imported_models.items()) *)
SortedItems(d) ==
    LET names == SortedNames(Aliases(d))
    IN [i \in DOMAIN names |-> [alias |-> names[i], model |-> DictGet(d, names[i])]]

(* d.get(k, default) of a dict modelled as a function *)
Get(f, k, default) == IF k \in DOMAIN f THEN f[k] ELSE default

(* model.get("model", {}).get("name", default) *)
NameOr(model, default) == IF model.name = "" THEN default ELSE model.name

(* a graph that keeps one edge per pair of models *)
AddEdgeOnce(g, model_name, imp_model_name) ==
    IF model_name \in DOMAIN g
    THEN IF \E i \in DOMAIN g[model_name] : g[model_name][i] = imp_model_name
         THEN g
         ELSE [g EXCEPT ![model_name] = Append(@, imp_model_name)]
    ELSE (model_name :> <<imp_model_name>>) @@ g

(* import_graph[model_name].append(imp_model_name), the key created when missing *)
AddEdge(g, model_name, imp_model_name) ==
    IF model_name \in DOMAIN g
    THEN [g EXCEPT ![model_name] = Append(@, imp_model_name)]
    ELSE (model_name :> <<imp_model_name>>) @@ g

EmptyDict == [k \in {} |-> <<>>]

-----------------------------------------------------------------------------
(* _resolve_imports_recursive: the entity filter of one import *)

(* one IMPORT_ENTITY_NOT_FOUND for each requested name not available *)
MissingIssues(alias, imp_model_name, entity_filter, available) ==
    LET miss == SelectSeq(entity_filter, LAMBDA r : r \notin available)
    IN [i \in DOMAIN miss |->
          Issue("error", "IMPORT_ENTITY_NOT_FOUND", <<alias, miss[i], imp_model_name>>, "/model/imports")]

(* a filter that also narrows the shared parse instead of a copy *)
ApplyEntityFilterInPlace(imp, alias, model_data, st) ==
    IF imp.has_entities /\ imp.entities # <<>>
    THEN LET filtered == [model_data EXCEPT !.entities =
                            SelectSeq(model_data.entities, LAMBDA e : e \in Range(imp.entities))]
         IN [imported_models |-> DictSet(st.imported_models, alias, filtered),
             issues |-> st.issues \o MissingIssues(alias, imp.model, imp.entities, Range(model_data.entities)),
             loaded_models |-> [st.loaded_models EXCEPT ![imp.model] = filtered]]
    ELSE [imported_models |-> DictSet(st.imported_models, alias, model_data),
          issues |-> st.issues,
          loaded_models |-> st.loaded_models]

(* a filter that reports the missing names but stores the whole model *)
ApplyEntityFilterKeepAll(imp, alias, model_data, st) ==
    [imported_models |-> DictSet(st.imported_models, alias, model_data),
     issues |-> IF imp.has_entities /\ imp.entities # <<>>
                THEN st.issues \o MissingIssues(alias, imp.model, imp.entities, Range(model_data.entities))
                ELSE st.issues,
     loaded_models |-> st.loaded_models]

(* lines 411-429; st holds imported_models, issues and the cache *)
ApplyEntityFilter(imp, alias, model_data, st) ==
    IF imp.has_entities /\ imp.entities # <<>>      \* if entity_filter:
    THEN LET filtered == [model_data EXCEPT !.entities =
                            SelectSeq(model_data.entities, LAMBDA e : e \in Range(imp.entities))]
         IN [imported_models |-> DictSet(st.imported_models, alias, filtered),
             issues |-> st.issues \o MissingIssues(alias, imp.model, imp.entities, Range(model_data.entities)),
             loaded_models |-> st.loaded_models]
    ELSE [imported_models |-> DictSet(st.imported_models, alias, model_data),
          issues |-> st.issues,
          loaded_models |-> st.loaded_models]

(* imp.get("alias", imp_model_name) *)
AliasOf(imp) == IF imp.alias = "" THEN imp.model ELSE imp.alias

(* history entry of one stored import *)
AppliedEntry(imp, model_data, st0, st1) ==
    [imp |-> imp,
     alias |-> AliasOf(imp),
     source |-> model_data,
     stored |-> DictGet(st1.imported_models, AliasOf(imp)),
     new_issues |-> SubSeq(st1.issues, Len(st0.issues) + 1, Len(st1.issues))]

-----------------------------------------------------------------------------
(* frames of _resolve_imports_recursive *)

Frame(model_name, imports, root_dir, depth) ==
    [model_name |-> model_name, imports |-> imports, i |-> 1, root_dir |-> root_dir,
     depth |-> depth, phase |-> "enter", pend_imp |-> Imp(""), pend_data |-> EmptyModel]

Top == stack[Len(stack)]

Pop(st) == SubSeq(st, 1, Len(st) - 1)

SetTop(st, f) == [st EXCEPT ![Len(st)] = f]

(* the loop goes on to the next import entry *)
Advance(st) == SetTop(st, [st[Len(st)] EXCEPT !.i = @ + 1, !.phase = "loop"])

(* a loop that ends at the first import entry it cannot use *)
BreakLoop(st) ==
    SetTop(st, [st[Len(st)] EXCEPT !.i = Len(st[Len(st)].imports) + 1, !.phase = "loop"])

(* `continue` of lines 352, 372 and 383 *)
Continue(st) == Advance(st)

(* a mismatch reported as an error *)
NameMismatchAsError(iss, imp_model_name, actual_name) ==
    IF actual_name # "" /\ actual_name # imp_model_name
    THEN Append(iss, Issue("error", "IMPORT_NAME_MISMATCH",
                           <<imp_model_name, actual_name>>, "/model/imports"))
    ELSE iss

(* lines 385-392: if actual_name and actual_name != imp_model_name *)
NameMismatch(iss, imp_model_name, actual_name) ==
    IF actual_name # "" /\ actual_name # imp_model_name
    THEN Append(iss, Issue("warn", "IMPORT_NAME_MISMATCH",
                           <<imp_model_name, actual_name>>, "/model/imports"))
    ELSE iss

(* no ceiling *)
DepthNeverExceeded(depth) == FALSE

DepthExceededAt(depth) == depth >= max_depth

DepthExceeded(depth) == depth > max_depth

-----------------------------------------------------------------------------
(* resolve_model, lines 242-282 *)

RootLoadFailedKeepsFile ==
    /\ issues' = Append(issues, Issue("error", "ROOT_LOAD_FAILED", <<>>, "/"))
    /\ file_map' = ("unknown" :> root_path) @@ file_map
    /\ pc' = "done"
    /\ UNCHANGED <<root_model, imported_models, import_graph, loaded_models, stack>>

(* except Exception: one issue, return result *)
RootLoadFailed ==
    /\ issues' = Append(issues, Issue("error", "ROOT_LOAD_FAILED", <<>>, "/"))
    /\ pc' = "done"
    /\ UNCHANGED <<root_model, imported_models, import_graph, file_map, loaded_models, stack>>

(* a root that is also entered among the imported models *)
RootLoadedAsImport ==
    LET doc == load_yaml_model(root_path, disk)
        root_name == NameOr(doc, "unknown")
    IN /\ root_model' = doc
       /\ file_map' = (root_name :> root_path) @@ file_map
       /\ imported_models' = DictSet(imported_models, root_name, doc)
       /\ IF doc.imports = <<>>
          THEN /\ pc' = "done"
               /\ UNCHANGED <<import_graph, stack>>
          ELSE /\ import_graph' = (root_name :> <<>>) @@ import_graph
               /\ stack' = <<Frame(root_name, doc.imports, Parent(root_path), 0)>>
               /\ pc' = "imports"
       /\ UNCHANGED <<issues, loaded_models>>

(* lines 259-282: root_name, file_map, the early return, the first call *)
RootLoaded ==
    LET doc == load_yaml_model(root_path, disk)
        root_name == NameOr(doc, "unknown")
    IN /\ root_model' = doc
       /\ file_map' = (root_name :> root_path) @@ file_map
       /\ IF doc.imports = <<>>
          THEN /\ pc' = "done"
               /\ UNCHANGED <<import_graph, stack>>
          ELSE /\ import_graph' = (root_name :> <<>>) @@ import_graph
               /\ stack' = <<Frame(root_name, doc.imports, Parent(root_path), 0)>>
               /\ pc' = "imports"
       /\ UNCHANGED <<imported_models, issues, loaded_models>>

LoadRoot ==
    /\ pc = "start"
    /\ loads' = Append(loads, [name |-> IF LoadRaises(root_path, disk) THEN ""
                                        ELSE NameOr(load_yaml_model(root_path, disk), "unknown"),
                               path |-> root_path])
    /\ IF LoadRaises(root_path, disk) THEN RootLoadFailed ELSE RootLoaded
    /\ UNCHANGED <<aux_vars, canon_vars, view_vars, disk, search_dirs, root_path, lookups, applied, summary>>

-----------------------------------------------------------------------------
(* _resolve_imports_recursive, lines 331-338: the depth ceiling *)

EnterRecursive ==
    /\ pc = "imports"
    /\ stack # <<>>
    /\ Top.phase = "enter"
    /\ IF DepthExceeded(Top.depth)
       THEN /\ issues' = Append(issues, Issue("error", "IMPORT_DEPTH_EXCEEDED", <<>>, "/model/imports"))
            /\ stack' = Pop(stack)
       ELSE /\ stack' = SetTop(stack, [Top EXCEPT !.phase = "loop"])
            /\ UNCHANGED issues
    /\ UNCHANGED <<aux_vars, canon_vars, view_vars, disk, search_dirs, root_path, pc, root_model, imported_models, import_graph,
                   file_map, loaded_models, loads, lookups, applied, summary>>

(* lines 340-429: one import entry, up to the recursive call or to the    *)
(* end of the loop body                                                    *)
ProcessImport ==
    /\ pc = "imports"
    /\ stack # <<>>
    /\ Top.phase = "loop"
    /\ Top.i <= Len(Top.imports)
    /\ LET f == Top
           imp == f.imports[f.i]
           imp_model_name == imp.model
           alias == AliasOf(imp)
           st0 == [imported_models |-> imported_models, issues |-> issues,
                   loaded_models |-> loaded_models]
       IN IF imp_model_name = ""
          THEN /\ issues' = Append(issues, Issue("error", "INVALID_IMPORT", <<>>, "/model/imports"))
               /\ stack' = Continue(stack)
               /\ UNCHANGED <<imported_models, import_graph, file_map, loaded_models,
                              loads, lookups, applied>>
          ELSE
          /\ import_graph' = AddEdge(import_graph, f.model_name, imp_model_name)
          /\ IF imp_model_name \in DOMAIN loaded_models
             THEN LET st1 == ApplyEntityFilter(imp, alias, loaded_models[imp_model_name], st0)
                  IN /\ imported_models' = st1.imported_models
                     /\ issues' = st1.issues
                     /\ loaded_models' = st1.loaded_models
                     /\ applied' = Append(applied, AppliedEntry(imp, loaded_models[imp_model_name], st0, st1))
                     /\ stack' = Advance(stack)
                     /\ UNCHANGED <<file_map, loads, lookups>>
             ELSE
             LET file_path == _resolve_import_path(imp, f.root_dir, search_dirs, disk)
             IN /\ lookups' = Append(lookups, [imp |-> imp, by |-> f.model_name, dir |-> f.root_dir,
                                             path |-> file_path])
                /\ IF file_path = NoPath
                   THEN /\ issues' = Append(issues, Issue("error", "IMPORT_NOT_FOUND",
                                                          <<imp_model_name>>, "/model/imports"))
                        /\ stack' = Continue(stack)
                        /\ UNCHANGED <<imported_models, file_map, loaded_models, loads, applied>>
                   ELSE
                   /\ loads' = Append(loads, [name |-> imp_model_name, path |-> file_path])
                   /\ IF LoadRaises(file_path, disk)
                      THEN /\ issues' = Append(issues, Issue("error", "IMPORT_LOAD_FAILED",
                                                             <<imp_model_name>>, "/model/imports"))
                           /\ stack' = Continue(stack)
                           /\ UNCHANGED <<imported_models, file_map, loaded_models, applied>>
                      ELSE
                      LET model_data == load_yaml_model(file_path, disk)
                          actual_name == model_data.name
                          iss1 == NameMismatch(issues, imp_model_name, actual_name)
                          cache1 == (imp_model_name :> model_data) @@ loaded_models
                          st1 == [imported_models |-> imported_models, issues |-> iss1,
                                  loaded_models |-> cache1]
                          sub_imports == model_data.imports
                      IN /\ file_map' = (imp_model_name :> file_path) @@ file_map
                         /\ IF sub_imports # <<>>
                            THEN /\ stack' = Append(
                                        SetTop(stack, [f EXCEPT !.phase = "after_call",
                                                                !.pend_imp = imp,
                                                                !.pend_data = model_data]),
                                        Frame(imp_model_name, sub_imports, Parent(file_path), f.depth + 1))
                                 /\ issues' = iss1
                                 /\ loaded_models' = cache1
                                 /\ UNCHANGED <<imported_models, applied>>
                            ELSE LET st2 == ApplyEntityFilter(imp, alias, model_data, st1)
                                 IN /\ imported_models' = st2.imported_models
                                    /\ issues' = st2.issues
                                    /\ loaded_models' = st2.loaded_models
                                    /\ applied' = Append(applied, AppliedEntry(imp, model_data, st1, st2))
                                    /\ stack' = Advance(stack)
    /\ UNCHANGED <<aux_vars, canon_vars, view_vars, disk, search_dirs, root_path, pc, root_model, summary>>

(* lines 411-429 after the recursive call of lines 400-409 has returned *)
AfterCall ==
    /\ pc = "imports"
    /\ stack # <<>>
    /\ Top.phase = "after_call"
    /\ LET f == Top
           st0 == [imported_models |-> imported_models, issues |-> issues,
                   loaded_models |-> loaded_models]
           st1 == ApplyEntityFilter(f.pend_imp, AliasOf(f.pend_imp), f.pend_data, st0)
       IN /\ imported_models' = st1.imported_models
          /\ issues' = st1.issues
          /\ loaded_models' = st1.loaded_models
          /\ applied' = Append(applied, AppliedEntry(f.pend_imp, f.pend_data, st0, st1))
          /\ stack' = SetTop(stack, [f EXCEPT !.i = @ + 1, !.phase = "loop",
                                              !.pend_imp = Imp(""), !.pend_data = EmptyModel])
    /\ UNCHANGED <<aux_vars, canon_vars, view_vars, disk, search_dirs, root_path, pc, root_model, import_graph, file_map,
                   loads, lookups, summary>>

(* the for loop of line 340 is exhausted: the call returns *)
Return ==
    /\ pc = "imports"
    /\ stack # <<>>
    /\ Top.phase = "loop"
    /\ Top.i > Len(Top.imports)
    /\ stack' = Pop(stack)
    /\ UNCHANGED <<aux_vars, canon_vars, view_vars, disk, search_dirs, root_path, pc, root_model, imported_models, import_graph,
                   file_map, issues, loaded_models, loads, lookups, applied, summary>>

-----------------------------------------------------------------------------
(* _detect_cycle, lines 208-225; the sets are returned with the answer *)

RECURSIVE _detect_cycle(_, _, _, _), DetectDeps(_, _, _, _, _),
          DetectCycleTwoColour(_, _, _, _), DetectDepsTwoColour(_, _, _, _, _)

(* a check that does not tell a finished node from one in progress *)
DetectCycleTwoColour(model_name, g, visiting, visited) ==
    IF model_name \in visiting \/ model_name \in visited
    THEN [found |-> TRUE, visiting |-> visiting, visited |-> visited]
    ELSE LET r == DetectDepsTwoColour(Get(g, model_name, <<>>), 1, g, visiting \cup {model_name}, visited)
         IN IF r.found THEN r
            ELSE [found |-> FALSE, visiting |-> r.visiting \ {model_name},
                  visited |-> r.visited \cup {model_name}]

DetectDepsTwoColour(deps, i, g, visiting, visited) ==
    IF i > Len(deps) THEN [found |-> FALSE, visiting |-> visiting, visited |-> visited]
    ELSE LET r == DetectCycleTwoColour(deps[i], g, visiting, visited)
         IN IF r.found THEN r ELSE DetectDepsTwoColour(deps, i + 1, g, r.visiting, r.visited)

_detect_cycle(model_name, g, visiting, visited) ==
    IF model_name \in visiting
    THEN [found |-> TRUE, visiting |-> visiting, visited |-> visited]
    ELSE IF model_name \in visited
    THEN [found |-> FALSE, visiting |-> visiting, visited |-> visited]
    ELSE LET r == DetectDeps(Get(g, model_name, <<>>), 1, g, visiting \cup {model_name}, visited)
         IN IF r.found THEN r
            ELSE [found |-> FALSE, visiting |-> r.visiting \ {model_name},
                  visited |-> r.visited \cup {model_name}]

(* for dep in import_graph.get(model_name, []) *)
DetectDeps(deps, i, g, visiting, visited) ==
    IF i > Len(deps) THEN [found |-> FALSE, visiting |-> visiting, visited |-> visited]
    ELSE LET r == _detect_cycle(deps[i], g, visiting, visited)
         IN IF r.found THEN r ELSE DetectDeps(deps, i + 1, g, r.visiting, r.visited)

(* resolve_model, lines 284-293 *)
DetectCycle ==
    /\ pc = "imports"
    /\ stack = <<>>
    /\ issues' = IF _detect_cycle(NameOr(root_model, "unknown"), import_graph, {}, {}).found
                 THEN Append(issues, Issue("error", "CIRCULAR_IMPORT", <<>>, "/model/imports"))
                 ELSE issues
    /\ pc' = "dups"
    /\ UNCHANGED <<aux_vars, canon_vars, view_vars, disk, search_dirs, root_path, root_model, imported_models, import_graph,
                   file_map, loaded_models, stack, loads, lookups, applied, summary>>

-----------------------------------------------------------------------------
(* resolve_model, lines 295-315: duplicate entity names across models *)

DuplicateIssue(ename, first_model, model_name, alias) ==
    Issue("warn", "DUPLICATE_CROSS_MODEL_ENTITY", <<ename, first_model, model_name, alias>>,
          "/model/imports")

RECURSIVE ScanEntities(_, _, _, _, _), ScanEntitiesLastOwner(_, _, _, _, _)

(* a scan in which the latest model takes the name over *)
ScanEntitiesLastOwner(ents, j, model_name, alias, acc) ==
    IF j > Len(ents) THEN acc
    ELSE LET ename == ents[j]
         IN IF ename # "" /\ ename \in DOMAIN acc.seen
            THEN ScanEntitiesLastOwner(ents, j + 1, model_name, alias,
                    [seen |-> (ename :> model_name) @@ acc.seen,
                     issues |-> Append(acc.issues,
                                       DuplicateIssue(ename, acc.seen[ename], model_name, alias))])
            ELSE IF ename # ""
            THEN ScanEntitiesLastOwner(ents, j + 1, model_name, alias,
                    [seen |-> (ename :> model_name) @@ acc.seen, issues |-> acc.issues])
            ELSE ScanEntitiesLastOwner(ents, j + 1, model_name, alias, acc)

(* for entity in model.get("entities", []) *)
ScanEntities(ents, j, model_name, alias, acc) ==
    IF j > Len(ents) THEN acc
    ELSE LET ename == ents[j]
         IN IF ename # "" /\ ename \in DOMAIN acc.seen
            THEN ScanEntities(ents, j + 1, model_name, alias,
                    [seen |-> acc.seen,
                     issues |-> Append(acc.issues,
                                       DuplicateIssue(ename, acc.seen[ename], model_name, alias))])
            ELSE IF ename # ""
            THEN ScanEntities(ents, j + 1, model_name, alias,
                    [seen |-> (ename :> model_name) @@ acc.seen, issues |-> acc.issues])
            ELSE ScanEntities(ents, j + 1, model_name, alias, acc)

(* for alias, model in result.imported_models.items(): insertion order *)
RECURSIVE ScanModels(_, _, _)
ScanModels(items, i, acc) ==
    IF i > Len(items) THEN acc
    ELSE ScanModels(items, i + 1,
                    ScanEntities(items[i].model.entities, 1,
                                 NameOr(items[i].model, items[i].alias), items[i].alias, acc))

(* seen_entities after the loop over the root's entities *)
RootSeen(rm, root_name) == [e \in Range(rm.entities) \ {""} |-> root_name]

CheckDuplicates ==
    /\ pc = "dups"
    /\ issues' = ScanModels(imported_models, 1,
                            [seen |-> RootSeen(root_model, NameOr(root_model, "unknown")),
                             issues |-> issues]).issues
    /\ pc' = "done"
    /\ UNCHANGED <<aux_vars, canon_vars, view_vars, disk, search_dirs, root_path, root_model, imported_models, import_graph,
                   file_map, loaded_models, stack, loads, lookups, applied, summary>>

-----------------------------------------------------------------------------
(* ResolvedModel views, lines 82-205 *)

RECURSIVE Flatten(_)
Flatten(ss) == IF ss = <<>> THEN <<>> ELSE Head(ss) \o Flatten(Tail(ss))

(* unified_entities: the root's entities, then those of the imported      *)
(* models in ascending order of alias; __import_alias "" when not set       *)
unified_entities(rm, im) ==
    LET root_name == NameOr(rm, "root")
        items == SortedItems(im)
    IN [i \in DOMAIN rm.entities |->
          [name |-> rm.entities[i], _source_model |-> root_name, _import_alias |-> ""]]
       \o Flatten([k \in DOMAIN items |->
            [i \in DOMAIN items[k].model.entities |->
               [name |-> items[k].model.entities[i],
                _source_model |-> NameOr(items[k].model, items[k].alias),
                _import_alias |-> items[k].alias]]])

(* unified_relationships *)
unified_relationships(rm, im) ==
    LET root_name == NameOr(rm, "root")
        items == SortedItems(im)
    IN [i \in DOMAIN rm.relationships |->
          [rel |-> rm.relationships[i], _source_model |-> root_name]]
       \o Flatten([k \in DOMAIN items |->
            [i \in DOMAIN items[k].model.relationships |->
               [rel |-> items[k].model.relationships[i],
                _source_model |-> NameOr(items[k].model, items[k].alias)]]])

(* resolve_model has returned its result *)
Returned == pc \in {"done", "summarized"}

(* unified_indexes *)
unified_indexes(rm, im) ==
    LET root_name == NameOr(rm, "root")
        items == SortedItems(im)
    IN [i \in DOMAIN rm.indexes |->
          [idx |-> rm.indexes[i], _source_model |-> root_name]]
       \o Flatten([k \in DOMAIN items |->
            [i \in DOMAIN items[k].model.indexes |->
               [idx |-> items[k].model.indexes[i],
                _source_model |-> NameOr(items[k].model, items[k].alias)]]])

(* The objects behind the items.  An item of a stored model is the object  *)
(* at its place in the model; copy.deepcopy gives an object of its own.    *)
Stored(imported, alias, coll, i) ==
    [kind |-> "stored", imported |-> imported, alias |-> alias, coll |-> coll, i |-> i]

(* the objects the loops of a view visit, in the order they visit them *)
StoredObjects(coll) ==
    LET items == SortedItems(imported_models)
    IN [i \in DOMAIN root_model[coll] |-> Stored(FALSE, "", coll, i)]
       \o Flatten([k \in DOMAIN items |->
            [i \in DOMAIN items[k].model[coll] |-> Stored(TRUE, items[k].alias, coll, i)]])

(* a view that hands out the stored objects themselves *)
ShareObject(obj) == obj

(* copy.deepcopy(entity), lines 87, 94, 106, 113, 124, 131 *)
deepcopy(obj) == [obj EXCEPT !.kind = "copy"]

Copies(coll) ==
    LET objs == StoredObjects(coll) IN [i \in DOMAIN objs |-> deepcopy(objs[i])]

(* a key is set on an item when the record of the item has it, not empty *)
HasKey(item, key) == key \in DOMAIN item /\ item[key] # ""

(* the assignments e["_source_model"] = ..., e["_import_alias"] = ... that *)
(* land on an object of a stored model                                     *)
WritesToStored(objs, items) ==
    UNION {{[obj |-> objs[i], key |-> k] :
               k \in {c \in {"_source_model", "_import_alias"} : HasKey(items[i], c)}} :
           i \in {j \in DOMAIN objs : objs[j].kind = "stored"}}

NoReturn == [view |-> "none", items |-> <<>>, mutated |-> FALSE]

(* one call of a unified_* view; the caller keeps the list *)
CallView(view, coll, items) ==
    LET objs == Copies(coll)
    IN /\ Returned
       /\ returned' = [view |-> view,
                       items |-> [i \in DOMAIN items |-> [obj |-> objs[i], value |-> items[i]]],
                       mutated |-> FALSE]
       /\ stored_writes' = stored_writes \cup WritesToStored(objs, items)
       /\ UNCHANGED <<aux_vars, resolver_vars, canon_vars>>

CallUnifiedEntities ==
    CallView("unified_entities", "entities", unified_entities(root_model, imported_models))

CallUnifiedRelationships ==
    CallView("unified_relationships", "relationships",
             unified_relationships(root_model, imported_models))

CallUnifiedIndexes ==
    CallView("unified_indexes", "indexes", unified_indexes(root_model, imported_models))

(* the caller sets a key on an item of the list it was given *)
MutateReturned ==
    /\ Returned
    /\ ~returned.mutated
    /\ \E i \in DOMAIN returned.items :
          stored_writes' = stored_writes
              \cup (IF returned.items[i].obj.kind = "stored"
                    THEN {[obj |-> returned.items[i].obj, key |-> "description"]} ELSE {})
    /\ returned' = [returned EXCEPT !.mutated = TRUE]
    /\ UNCHANGED <<aux_vars, resolver_vars, canon_vars>>

(* s.split(".")[0] of a string given as its tokens *)
SplitFirst(s) ==
    LET dots == {i \in DOMAIN s : s[i] = "."}
    IN IF dots = {} THEN s
       ELSE SubSeq(s, 1, (CHOOSE i \in dots : \A j \in dots : i <= j) - 1)

(* the tokens of an entity name *)
NameChars(n) == IF n = "" THEN <<>> ELSE <<n>>

(* entity_to_model[e.name] = e.__source_model, later entries overwrite *)
RECURSIVE BuildIndex(_, _, _)
BuildIndex(all_entities, i, idx) ==
    IF i > Len(all_entities) THEN idx
    ELSE BuildIndex(all_entities, i + 1,
                    (NameChars(all_entities[i].name) :> all_entities[i]._source_model) @@ idx)

IsCrossModelAnyPair(from_model, to_model) == from_model # "" /\ to_model # ""

(* line 185 *)
IsCrossModel(from_model, to_model) ==
    from_model # "" /\ to_model # "" /\ from_model # to_model

CrossRelEntrySwapped(rel, from_model, to_model) ==
    [name |-> rel.name, from_model |-> to_model, to_model |-> from_model,
     from |-> rel.from, to |-> rel.to, cardinality |-> rel.cardinality]

(* lines 186-193 *)
CrossRelEntry(rel, from_model, to_model) ==
    [name |-> rel.name, from_model |-> from_model, to_model |-> to_model,
     from |-> rel.from, to |-> rel.to, cardinality |-> rel.cardinality]

(* imp.get("alias", imp.get("model", "")) *)
ImportLabels(model) == [i \in DOMAIN model.imports |-> AliasOf(model.imports[i])]

(* to_graph_summary *)
to_graph_summary(rm, im, fm, iss) ==
    LET root_name == NameOr(rm, "unknown")
        items == SortedItems(im)
        models ==
            <<[name |-> root_name, alias |-> "", file |-> Get(fm, root_name, NoPath),
               entity_count |-> Len(rm.entities), entities |-> rm.entities,
               imports |-> ImportLabels(rm), is_root |-> TRUE]>>
            \o [k \in DOMAIN items |->
                  [name |-> NameOr(items[k].model, items[k].alias), alias |-> items[k].alias,
                   file |-> Get(fm, NameOr(items[k].model, items[k].alias), NoPath),
                   entity_count |-> Len(items[k].model.entities),
                   entities |-> items[k].model.entities,
                   imports |-> ImportLabels(items[k].model), is_root |-> FALSE]]
        entity_to_model == BuildIndex(unified_entities(rm, im), 1, EmptyDict)
        rels == unified_relationships(rm, im)
        FromModel(r) == Get(entity_to_model, SplitFirst(r.rel.from), "")
        ToModel(r) == Get(entity_to_model, SplitFirst(r.rel.to), "")
        cross == SelectSeq(rels, LAMBDA r : IsCrossModel(FromModel(r), ToModel(r)))
    IN [root_model |-> root_name,
        model_count |-> Len(models),
        total_entities |-> SeqSum([k \in DOMAIN models |-> models[k].entity_count]),
        cross_model_relationships |->
            [k \in DOMAIN cross |-> CrossRelEntry(cross[k].rel, FromModel(cross[k]), ToModel(cross[k]))],
        models |-> models,
        issues |-> iss]

NoSummary == [root_model |-> "", model_count |-> 0, total_entities |-> 0,
              cross_model_relationships |-> <<>>, models |-> <<>>, issues |-> <<>>]

(* the caller takes the summary of the returned result *)
TakeSummary ==
    /\ pc = "done"
    /\ command.name # "resolve-project"
    /\ summary' = to_graph_summary(root_model, imported_models, file_map, issues)
    /\ stored_writes' = stored_writes
            \cup WritesToStored(Copies("entities"), unified_entities(root_model, imported_models))
            \cup WritesToStored(Copies("relationships"),
                                unified_relationships(root_model, imported_models))
    /\ pc' = "summarized"
    /\ UNCHANGED <<aux_vars, canon_vars, returned, disk, search_dirs, root_path, root_model, imported_models, import_graph,
                   file_map, issues, loaded_models, stack, loads, lookups, applied>>

-----------------------------------------------------------------------------
(* The projects resolve_model is run on *)

RootFile == ModelFile(RootDir, "orders", "yaml")

FileOf(name) == ModelFile(RootDir, name, "yaml")

Project(fs, sdirs) == [disk |-> fs, search_dirs |-> sdirs]

(* graph family: three models in one directory importing each other *)
GraphNames == {"orders", "shared_dimensions", "inventory"}

GraphProjects ==
    { Project((RootFile :> GoodFile(Doc("orders", ri, <<"Order">>, <<>>)))
              @@ (FileOf("shared_dimensions") :> GoodFile(Doc("shared_dimensions", si, <<"Customer">>, <<>>)))
              @@ (FileOf("inventory") :> GoodFile(Doc("inventory", ii, <<"Item">>, <<>>))),
              <<>>) :
        ri \in SeqsUpTo({Imp(n) : n \in GraphNames}, MaxRootImports),
        si \in SeqsUpTo({Imp(n) : n \in GraphNames}, MaxSubImports),
        ii \in {<<>>} \cup {<<Imp(n)>> : n \in GraphNames} }

(* a root that is missing or does not parse *)
BrokenRootProjects ==
    { Project(FileOf("shared_dimensions") :> GoodFile(Doc("shared_dimensions", <<>>, <<"Customer">>, <<>>)), <<>>),
      Project((RootFile :> BadFile)
              @@ (FileOf("shared_dimensions") :> GoodFile(Doc("shared_dimensions", <<>>, <<"Customer">>, <<>>))),
              <<Lib1>>) }

(* filter family: aliases, entity filters, broken import entries *)
FilterEntries ==
    { Imp(""),
      Imp("shared_dimensions"),
      Import("shared_dimensions", "", TRUE, <<"Customer">>, NoPath),
      Import("shared_dimensions", "", TRUE, <<"Ghost", "Customer">>, NoPath),
      Import("shared_dimensions", "shared", FALSE, <<>>, NoPath),
      Import("shared_dimensions", "shared", TRUE, <<>>, NoPath),
      Import("shared_dimensions", "shared", TRUE, <<"Customer">>, NoPath),
      Import("inventory", "shared", FALSE, <<>>, NoPath),
      Import("inventory", "shared", TRUE, <<"Customer">>, NoPath) }

InventoryFiles ==
    { EmptyDict,
      FileOf("inventory") :> BadFile,
      FileOf("inventory") :> GoodFile(Doc("inventory", <<>>, <<"Customer", "Item">>, <<>>)),
      FileOf("inventory") :> GoodFile(Doc("shared_dimensions", <<Imp("shared_dimensions")>>,
                                          <<"Item">>, <<>>)) }

FilterProjects ==
    { Project((RootFile :> GoodFile(Doc("orders", ri, <<"Order", "Customer">>, <<>>)))
              @@ (FileOf("shared_dimensions") :> GoodFile(Doc("shared_dimensions", si, <<"Customer", "Region">>, <<>>)))
              @@ inv,
              <<>>) :
        ri \in SeqsUpTo(FilterEntries, MaxFilterImports),
        si \in {<<>>, <<Import("inventory", "", TRUE, <<"Customer">>, NoPath)>>},
        inv \in InventoryFiles }

(* view family: relationships between the root and an imported model *)
RelEnds == { <<"Order", ".", "customer_id">>, <<"Customer", ".", "customer_id">>,
             <<"Ghost", ".", "id">>, <<"Order">>, <<>> }

RootRels == {Rel("order_customer", f, t, "many_to_one") : f \in RelEnds, t \in RelEnds}

DemoImport == Import("shared_dimensions", "shared", TRUE, <<"Customer">>, NoPath)

ViewImports == { <<>>, <<DemoImport>>, <<Imp("shared_dimensions")>>,
                 <<Import("shared_dimensions", "shared", FALSE, <<>>, NoPath)>>,
                 <<DemoImport, Imp("inventory")>> }

ViewProjects ==
    { Project((RootFile :> GoodFile(WithIndexes(Doc("orders", ri, <<"Order">>, rr), sh[3])))
              @@ (FileOf("shared_dimensions")
                    :> GoodFile(WithIndexes(Doc("shared_dimensions", <<>>, sh[1], sh[2]),
                                            <<Index("idx_customer_email", "Customer")>>)))
              @@ (FileOf("inventory") :> GoodFile(Doc("inventory", <<>>, <<"Item", "Customer">>, <<>>))),
              <<>>) :
        ri \in ViewImports,
        rr \in SeqsUpTo(RootRels, MaxRels),
        sh \in { <<<<"Customer">>, <<>>, <<>>>>,
                  <<<<"Customer", "Region">>,
                    <<Rel("customer_order", <<"Customer", ".", "customer_id">>,
                          <<"Order", ".", "customer_id">>, "one_to_many")>>,
                    <<Index("idx_order_date", "Order")>>>> } }

(* MULTI_MODEL_ORDERS and MULTI_MODEL_SHARED of dm_cli/main.py *)
DemoDisk ==
    (RootFile :> GoodFile(Doc("orders", <<DemoImport>>, <<"Order">>,
                              <<Rel("order_customer", <<"Order", ".", "customer_id">>,
                                    <<"Customer", ".", "customer_id">>, "many_to_one")>>)))
    @@ (FileOf("shared_dimensions")
          :> GoodFile(WithIndexes(Doc("shared_dimensions", <<>>, <<"Customer">>, <<>>),
                                  <<Index("idx_customer_email", "Customer")>>)))
    @@ (FileOf("inventory") :> GoodFile(Doc("inventory", <<>>, <<"Item", "Customer">>, <<>>)))

(* chain family: orders -> m1 -> ... -> mk *)
ChainNames == <<"m1", "m2", "m3", "m4", "m5", "m6", "m7", "m8", "m9", "m10",
                "m11", "m12", "m13", "m14", "m15">>

ChainImports(i, k) == IF i < k THEN <<Imp(ChainNames[i + 1])>> ELSE <<>>

ChainDisk(k) ==
    [p \in {RootFile} \cup {FileOf(ChainNames[i]) : i \in 1..k} |->
        IF p = RootFile THEN GoodFile(Doc("orders", ChainImports(0, k), <<"Order">>, <<>>))
        ELSE LET i == CHOOSE j \in 1..k : FileOf(ChainNames[j]) = p
             IN GoodFile(Doc(ChainNames[i], ChainImports(i, k), <<>>, <<>>))]

ChainProjects == {Project(ChainDisk(k), <<>>) : k \in 0..MaxChain}

(* search family: copies of the imported file in several directories *)
Locations == {ModelFile(d, "shared_dimensions", e) : d \in DirTree, e \in {"yaml", "yml"}}

SearchDirChoices == { <<>>, <<Lib1, Lib2>>, <<Lib2, Lib1>> }

SearchProjects ==
    { Project((RootFile :> GoodFile(Doc("orders", <<Imp("shared_dimensions")>>, <<"Order">>, <<>>)))
              @@ [p \in copies |-> GoodFile(Doc("shared_dimensions", <<Imp("inventory")>>, <<"Customer">>, <<>>))]
              @@ (ModelFile(RootDir \o <<"a">>, "inventory", "yml") :> GoodFile(Doc("inventory", <<>>, <<"Item">>, <<>>)))
              @@ (ModelFile(Lib2, "inventory", "yaml") :> GoodFile(Doc("inventory", <<>>, <<"Item">>, <<>>))),
              sd) :
        copies \in {c \in SUBSET Locations : Cardinality(c) <= MaxCopies},
        sd \in SearchDirChoices }

(* path family: imports with an explicit `path`, relative to the file    *)
(* that declares them                                                      *)
SubA == RootDir \o <<"a">>

InA(name) == [dir |-> <<"a">>, file |-> <<name, "yaml">>]
InB(name) == [dir |-> <<"b">>, file |-> <<name, "yaml">>]
Beside(name) == [dir |-> <<>>, file |-> <<name, "yaml">>]

PathEntries ==
    { Import("shared_dimensions", "", FALSE, <<>>, InA("shared_dimensions")),
      Import("shared_dimensions", "", FALSE, <<>>, InB("shared_dimensions")),
      Import("", "", FALSE, <<>>, InA("shared_dimensions")),
      Imp("shared_dimensions") }

PathProjects ==
    { Project((RootFile :> GoodFile(Doc("orders", ri, <<"Order">>, <<>>)))
              @@ (ModelFile(SubA, "shared_dimensions", "yaml")
                    :> GoodFile(Doc("shared_dimensions", si, <<"Customer">>, <<>>)))
              @@ [p \in inv |-> GoodFile(Doc("inventory", <<>>, <<"Item">>, <<>>))],
              sd) :
        ri \in SeqsUpTo(PathEntries, MaxPathImports),
        si \in { <<>>, <<Imp("inventory")>>,
                 <<Import("inventory", "", FALSE, <<>>, Beside("inventory"))>> },
        inv \in SUBSET {FileOf("inventory"), ModelFile(SubA, "inventory", "yaml")},
        sd \in {<<>>, <<RootDir>>} }

(* resolve_model is called on one project of a family *)
StartOn(family) == \E p \in family : disk = p.disk /\ search_dirs = p.search_dirs

-----------------------------------------------------------------------------
(* resolve_model is about to run: a new ResolvedModel, nothing loaded, no *)
(* view called                                                             *)
Fresh ==
    /\ root_path = RootFile
    /\ pc = "start"
    /\ root_model = EmptyModel
    /\ imported_models = <<>>
    /\ import_graph = EmptyDict
    /\ file_map = EmptyDict
    /\ issues = <<>>
    /\ loaded_models = EmptyDict
    /\ stack = <<>>
    /\ loads = <<>>
    /\ lookups = <<>>
    /\ applied = <<>>
    /\ summary = NoSummary
    /\ returned = NoReturn
    /\ stored_writes = {}

(* compile_model has not been called *)
NothingCompiled ==
    /\ canonical = NotCompiled
    /\ recompiled = NotCompiled
    /\ permuted = NoDocument
    /\ canonical_permuted = NotCompiled
    /\ canonical_objects = NoObjects

(* no command has returned *)
NoExitYet == exit_code = NoExit /\ diff_calls = 0

(* resolve_project was not called *)
NoProject == model_files = <<>> /\ results = <<>> /\ alone = <<>>

(* import_sql_ddl was not called *)
NoDdl == ddl_text = <<>> /\ ddl_model = [present |-> {}]

(* no command was run, no project resolved, no SQL imported *)
AuxIdle ==
    /\ command = NoCommand
    /\ NoExitYet
    /\ NoProject
    /\ NoDdl

Init ==
    /\ \/ StartOn(GraphProjects) \/ StartOn(BrokenRootProjects) \/ StartOn(FilterProjects)
       \/ StartOn(ViewProjects) \/ StartOn(ChainProjects) \/ StartOn(SearchProjects)
       \/ StartOn(PathProjects)
    /\ Fresh
    /\ document = NoDocument
    /\ NothingCompiled
    /\ AuxIdle

Next ==
    \/ LoadRoot
    \/ EnterRecursive
    \/ ProcessImport
    \/ AfterCall
    \/ Return
    \/ DetectCycle
    \/ CheckDuplicates
    \/ TakeSummary

Spec == Init /\ [][Next]_vars

(* resolve_model and then a caller that uses the views of the result *)
NextViews ==
    \/ Next
    \/ CallUnifiedEntities
    \/ CallUnifiedRelationships
    \/ CallUnifiedIndexes
    \/ MutateReturned

(* the projects with entities, relationships and indexes to view *)
InitViews ==
    /\ StartOn(ViewProjects) \/ StartOn(GraphProjects) \/ StartOn(BrokenRootProjects)
    /\ Fresh
    /\ document = NoDocument
    /\ NothingCompiled
    /\ AuxIdle

SpecViews == InitViews /\ [][NextViews]_vars

TypeOK ==
    /\ pc \in {"start", "imports", "dups", "done", "summarized"}
    /\ (pc = "start") = (loads = <<>>)
    /\ (stack # <<>>) => pc = "imports"

-----------------------------------------------------------------------------
(* Properties *)

IssuesOf(code) == SelectSeq(issues, LAMBDA x : x.code = code)

\* C1 (as stated): resolving the demo root `orders`, which imports
\* `shared_dimensions` as `shared` filtered to Customer, gives a summary with
\* model_count 2, total_entities 2 and one cross-model relationship whose
\* from_model is "shared_dimensions" and whose to_model is "orders".
C1_DemoSummaryAsStated ==
    (disk = DemoDisk /\ pc = "summarized") =>
        /\ summary.model_count = 2
        /\ summary.total_entities = 2
        /\ Len(summary.cross_model_relationships) = 1
        /\ summary.cross_model_relationships[1].from_model = "shared_dimensions"
        /\ summary.cross_model_relationships[1].to_model = "orders"

\* C1 (amended): the same summary has model_count 2, total_entities 2 and one
\* cross-model relationship, order_customer, whose from_model is "orders" (the
\* owner of Order) and whose to_model is "shared_dimensions" (the owner of
\* Customer).
C1_DemoSummary ==
    (disk = DemoDisk /\ pc = "summarized") =>
        /\ summary.model_count = 2
        /\ summary.total_entities = 2
        /\ Len(summary.cross_model_relationships) = 1
        /\ summary.cross_model_relationships[1].name = "order_customer"
        /\ summary.cross_model_relationships[1].from_model = "orders"
        /\ summary.cross_model_relationships[1].to_model = "shared_dimensions"

C1_Witness ==
    /\ disk = DemoDisk
    /\ pc = "summarized"
    /\ Aliases(imported_models) = {"shared"}
    /\ summary.cross_model_relationships # <<>>

\* C2: when loading the root document fails, resolve_model returns with the
\* single issue ROOT_LOAD_FAILED and an empty graph: root_model,
\* imported_models, import_graph and file_map are empty, no import path is
\* looked up and no file but the root is handed to the loader.
C2_RootLoadFailure ==
    (pc # "start" /\ LoadRaises(root_path, disk)) =>
        /\ Returned
        /\ issues = <<Issue("error", "ROOT_LOAD_FAILED", <<>>, "/")>>
        /\ root_model = EmptyModel
        /\ imported_models = <<>>
        /\ import_graph = EmptyDict
        /\ file_map = EmptyDict
        /\ lookups = <<>>
        /\ loads = <<[name |-> "", path |-> root_path]>>

C2_Witness ==
    /\ pc = "done"
    /\ LoadRaises(root_path, disk)
    /\ Len(issues) = 1
    /\ issues[1].code = "ROOT_LOAD_FAILED"


(* the graph as a relation *)
Succ(g, n) == IF n \in DOMAIN g THEN Range(g[n]) ELSE {}

(* every model reached from the models of S along import edges, S included *)
RECURSIVE ReachSet(_, _)
ReachSet(g, S) ==
    LET T == S \cup UNION {Succ(g, n) : n \in S}
    IN IF T = S THEN S ELSE ReachSet(g, T)

(* some model reached from the root lies on a cycle *)
HasCycleFrom(g, root) ==
    \E n \in ReachSet(g, {root}) : n \in ReachSet(g, Succ(g, n))

\* C3: once the cycle check has run, the issue list holds exactly one
\* CIRCULAR_IMPORT issue when the recorded import graph has a cycle reachable
\* from the root, and none when that graph is acyclic (diamonds and repeated
\* edges included); a call that returns before the check records none.
C3_OneCircularImportIssue ==
    (pc \in {"dups", "done", "summarized"}) =>
        Len(IssuesOf("CIRCULAR_IMPORT"))
            = IF HasCycleFrom(import_graph, NameOr(root_model, "unknown")) THEN 1 ELSE 0

C3_Witness ==
    /\ pc = "done"
    /\ Len(IssuesOf("CIRCULAR_IMPORT")) = 1
    /\ "inventory" \in Succ(import_graph, "inventory")
    /\ "orders" \in Succ(import_graph, "shared_dimensions")

\* C4: within one resolve_model call no model name, the root's included, is
\* handed to the loader more than once.
C4_EachNameLoadedOnce ==
    \A i, j \in DOMAIN loads :
        (loads[i].name # "" /\ loads[i].name = loads[j].name) => i = j

(* the project on disk is the chain orders -> m1 -> ... -> mk *)
IsChain(k) ==
    /\ k \in 0..MaxChain
    /\ ~Exists(FileOf("shared_dimensions"), disk)
    /\ Cardinality(DOMAIN disk) = k + 1
    /\ disk = ChainDisk(k)

\* C5 (as stated): for a linear chain orders -> m1 -> ... -> mk the returned
\* issue list holds an IMPORT_DEPTH_EXCEEDED issue exactly when k > 10.
C5_DepthIssueAsStated ==
    \A k \in 0..MaxChain :
        (Returned /\ IsChain(k)) =>
            ((IssuesOf("IMPORT_DEPTH_EXCEEDED") # <<>>) <=> (k > max_depth))

\* C5 (amended): for a linear chain orders -> m1 -> ... -> mk the call returns
\* with one IMPORT_DEPTH_EXCEEDED issue exactly when k > 11, that is when the
\* imports of m11 would be walked at recursion depth 11; then the descent stops
\* there, m1..m11 are all in imported_models and m12 is never loaded; for
\* k <= 11 there is no such issue and m1..mk are all in imported_models.
C5_DepthIssue ==
    \A k \in 0..MaxChain :
        (Returned /\ IsChain(k)) =>
            /\ Len(IssuesOf("IMPORT_DEPTH_EXCEEDED")) = (IF k > max_depth + 1 THEN 1 ELSE 0)
            /\ Aliases(imported_models)
                 = {ChainNames[i] : i \in 1..(IF k > max_depth + 1 THEN max_depth + 1 ELSE k)}
            /\ DOMAIN loaded_models = Aliases(imported_models)

C5_Witness ==
    /\ IsChain(max_depth + 2)
    /\ pc = "done"
    /\ Len(IssuesOf("IMPORT_DEPTH_EXCEEDED")) = 1
    /\ ChainNames[max_depth + 1] \in Aliases(imported_models)


(* the directories of dirs that are not hidden, in order *)
VisibleSubdirs(d) == SelectSeq(SortedSubdirs(d), LAMBDA s : ~Hidden(s))

(* each directory followed by its own subdirectories *)
DirThenItsSubdirs(dirs) == Flatten([i \in DOMAIN dirs |-> <<dirs[i]>> \o VisibleSubdirs(dirs[i])])

(* every directory, then the subdirectories of each *)
AllDirsThenSubdirs(dirs) == dirs \o Flatten([i \in DOMAIN dirs |-> VisibleSubdirs(dirs[i])])

(* the first existing <name>.model.yaml / .yml along a list of directories *)
FirstMatch(order, model_name, fs) ==
    LET hits == {i \in DOMAIN order : FirstCandidate(order[i], model_name, fs) # NoPath}
    IN IF hits = {} THEN NoPath
       ELSE FirstCandidate(order[CHOOSE i \in hits : \A j \in hits : i <= j], model_name, fs)

DeclaredBy(model_name) == disk[file_map[model_name]].doc.entities

(* what one stored import must look like for a filter F *)
FilterHonoured(a) ==
    LET F == a.imp.entities
        declared == Range(DeclaredBy(a.imp.model))
    IN /\ a.stored.entities = SelectSeq(DeclaredBy(a.imp.model), LAMBDA e : e \in Range(F))
       /\ Len(a.new_issues) = Cardinality({i \in DOMAIN F : F[i] \notin declared})
       /\ \A i \in DOMAIN a.new_issues :
             /\ a.new_issues[i].code = "IMPORT_ENTITY_NOT_FOUND"
             /\ a.new_issues[i].args[1] = a.alias
             /\ a.new_issues[i].args[2] \in Range(F) \ declared
             /\ a.new_issues[i].args[3] = a.imp.model
       /\ \A n \in Range(F) \ declared : \E i \in DOMAIN a.new_issues : a.new_issues[i].args[2] = n

ParsedFrom(model_name) == disk[file_map[model_name]].doc

\* C8: applying an import's entities filter never changes the cached parse of
\* the imported model: every cache entry stays equal to what the loader
\* returned, and every import of a name, the first as well as each later cache
\* hit with no filter or another filter, is filtered from the model's complete
\* original entity list.
C8_FilterLeavesCache ==
    /\ \A n \in DOMAIN loaded_models : loaded_models[n] = ParsedFrom(n)
    /\ \A i \in DOMAIN applied :
          LET a == applied[i]
          IN /\ a.source = ParsedFrom(a.imp.model)
             /\ a.stored.entities =
                  IF a.imp.has_entities /\ a.imp.entities # <<>>
                  THEN SelectSeq(ParsedFrom(a.imp.model).entities,
                                 LAMBDA e : e \in Range(a.imp.entities))
                  ELSE ParsedFrom(a.imp.model).entities

C8_Witness ==
    \E i, j \in DOMAIN applied :
        /\ i < j
        /\ applied[i].imp.model = applied[j].imp.model
        /\ applied[i].imp.entities = <<"Customer">>
        /\ applied[i].stored.entities = <<"Customer">>
        /\ ~applied[j].imp.has_entities
        /\ applied[j].stored.entities = <<"Customer", "Region">>

(* the root and the imported models in the order the duplicate check meets them *)
Declarers ==
    <<[model_name |-> NameOr(root_model, "unknown"), alias |-> "", entities |-> root_model.entities]>>
    \o [i \in DOMAIN imported_models |->
          [model_name |-> NameOr(imported_models[i].model, imported_models[i].alias),
           alias |-> imported_models[i].alias,
           entities |-> imported_models[i].model.entities]]

DeclaringIndexes(e) == {i \in DOMAIN Declarers : e \in Range(Declarers[i].entities)}

(* the n-th smallest element of a set of numbers *)
Nth(S, n) == CHOOSE x \in S : Cardinality({y \in S : y < x}) = n - 1

DuplicateWarnings(e) ==
    SelectSeq(issues, LAMBDA x : x.code = "DUPLICATE_CROSS_MODEL_ENTITY" /\ x.args[1] = e)

EntityNames == {"Order", "Customer", "Region", "Item", "Ghost"}

\* C9: when resolve_model returns after the duplicate check, an entity name
\* declared by k >= 2 of the root and the imported (filtered) models has
\* exactly k - 1 DUPLICATE_CROSS_MODEL_ENTITY warnings, all of severity warn,
\* the j-th naming the first model that introduced the name (the root first),
\* the (j+1)-th declaring model and that model's import alias; a name declared
\* by fewer than two of them has no warning.
C9_DuplicateWarnings ==
    Returned =>
        \A e \in EntityNames :
            LET D == DeclaringIndexes(e)
                k == Cardinality(D)
                W == DuplicateWarnings(e)
            IN IF k >= 2
               THEN /\ Len(W) = k - 1
                    /\ \A j \in 1..(k - 1) :
                          /\ W[j].severity = "warn"
                          /\ W[j].args = <<e, Declarers[Nth(D, 1)].model_name,
                                           Declarers[Nth(D, j + 1)].model_name,
                                           Declarers[Nth(D, j + 1)].alias>>
               ELSE W = <<>>

C9_Witness ==
    /\ pc = "done"
    /\ Cardinality(DeclaringIndexes("Customer")) = 3
    /\ Len(DuplicateWarnings("Customer")) = 2
    /\ DuplicateWarnings("Customer")[2].args[2] = "orders"

(* the last unified entity whose name is the entity part of an endpoint *)
Resolving(U, endpoint) == {i \in DOMAIN U : NameChars(U[i].name) = SplitFirst(endpoint)}

OwnerOf(U, endpoint) ==
    U[CHOOSE i \in Resolving(U, endpoint) : \A j \in Resolving(U, endpoint) : j <= i]._source_model

\* C10: the summary's cross_model_relationships are, in order, exactly the
\* relationships of the unified relationship set whose `from` and `to` entity
\* parts both name an entity of the unified entity list and whose two owning
\* models (per the name -> owner index, the last entity of a name) differ; a
\* relationship with an unresolved endpoint is left out and adds no issue.
C10_CrossModelIff ==
    (pc = "summarized") =>
        LET U == unified_entities(root_model, imported_models)
            R == unified_relationships(root_model, imported_models)
            cross == SelectSeq(R, LAMBDA r :
                        /\ Resolving(U, r.rel.from) # {}
                        /\ Resolving(U, r.rel.to) # {}
                        /\ OwnerOf(U, r.rel.from) # OwnerOf(U, r.rel.to))
        IN /\ Len(summary.cross_model_relationships) = Len(cross)
           /\ \A k \in DOMAIN cross :
                 /\ summary.cross_model_relationships[k].name = cross[k].rel.name
                 /\ summary.cross_model_relationships[k].from = cross[k].rel.from
                 /\ summary.cross_model_relationships[k].to = cross[k].rel.to
                 /\ summary.cross_model_relationships[k].from_model = OwnerOf(U, cross[k].rel.from)
                 /\ summary.cross_model_relationships[k].to_model = OwnerOf(U, cross[k].rel.to)
           /\ summary.issues = issues

C10_Witness ==
    /\ pc = "summarized"
    /\ Len(summary.cross_model_relationships) = 1
    /\ summary.cross_model_relationships[1].name = "customer_order"
    /\ \E i \in DOMAIN root_model.relationships :
          /\ SplitFirst(root_model.relationships[i].from) = <<"Order">>
          /\ SplitFirst(root_model.relationships[i].to) = <<"Ghost">>


-----------------------------------------------------------------------------
(* the import entries the walk has to process: those of the root and those *)
(* of every model that was loaded, each with the directory of its model    *)
Walked ==
    LET names == SortedNames(DOMAIN loaded_models)
    IN [i \in DOMAIN root_model.imports |->
          [imp |-> root_model.imports[i], by |-> NameOr(root_model, "unknown"),
           dir |-> Parent(root_path)]]
       \o Flatten([k \in DOMAIN names |->
            [i \in DOMAIN loaded_models[names[k]].imports |->
               [imp |-> loaded_models[names[k]].imports[i], by |-> names[k],
                dir |-> Parent(file_map[names[k]])]]])

(* the entry names a model whose file is found and parses *)
Loads(e) ==
    /\ e.imp.model # ""
    /\ LET p == _resolve_import_path(e.imp, e.dir, search_dirs, disk)
       IN p # NoPath /\ ~LoadRaises(p, disk)

RootLoadedOk == loads # <<>> /\ loads[1].name # ""

NoDepthIssue == \A i \in DOMAIN issues : issues[i].code # "IMPORT_DEPTH_EXCEEDED"

\* C11: a non-fatal problem on one import entry (missing model field, file
\* not found, load failure, name mismatch, entity-filter miss) never stops
\* the walk.  When resolve_model has returned (and the depth ceiling was not
\* hit) every import entry of the root and of every loaded model has been
\* processed: each ended either stored in imported_models or with exactly one
\* INVALID_IMPORT, IMPORT_NOT_FOUND or IMPORT_LOAD_FAILED issue; there is one
\* INVALID_IMPORT per entry without a model name; and every entry whose file
\* is found and parses has its alias in imported_models.
C11_ProblemsDoNotStopTheWalk ==
    (Returned /\ RootLoadedOk /\ NoDepthIssue) =>
        /\ Len(applied) + Len(IssuesOf("INVALID_IMPORT")) + Len(IssuesOf("IMPORT_NOT_FOUND"))
             + Len(IssuesOf("IMPORT_LOAD_FAILED")) = Len(Walked)
        /\ Len(IssuesOf("INVALID_IMPORT")) = Count(Walked, LAMBDA e : e.imp.model = "")
        /\ Len(IssuesOf("IMPORT_NOT_FOUND")) = Count(lookups, LAMBDA l : l.path = NoPath)
        /\ \A i \in DOMAIN Walked :
              Loads(Walked[i]) => AliasOf(Walked[i].imp) \in Aliases(imported_models)

\* C11 witness: the root's first import loads a model whose own import is not
\* found; the root's second import, declared after it, is stored all the same.
C11_Witness ==
    /\ Returned /\ RootLoadedOk
    /\ Len(root_model.imports) = 2
    /\ root_model.imports[1] = Imp("shared_dimensions")
    /\ root_model.imports[2].model = "inventory"
    /\ \E i \in DOMAIN issues : issues[i].code = "IMPORT_ENTITY_NOT_FOUND"
    /\ \E i \in DOMAIN issues : issues[i].code = "IMPORT_NAME_MISMATCH"
    /\ Aliases(imported_models) = {"shared_dimensions", "shared"}

\* C12: a root that loads and declares no imports resolves to an empty
\* imported-model set and an empty issue list, whatever its entities and
\* relationships are; the root model is the parsed document.
C12_NoImportsNoIssues ==
    (Returned /\ RootLoadedOk /\ disk[root_path].doc.imports = <<>>) =>
        /\ imported_models = <<>>
        /\ issues = <<>>
        /\ root_model = disk[root_path].doc

\* C12 witness: such a root with a relationship whose ends resolve nowhere.
C12_Witness ==
    /\ Returned /\ RootLoadedOk
    /\ root_model.imports = <<>>
    /\ root_model.relationships # <<>>
    /\ root_model.entities # <<>>


-----------------------------------------------------------------------------
(* the file an explicit path names, from the directory of the file of the  *)
(* model that declares the import                                          *)
ExplicitCandidate(by, imp) ==
    [dir |-> Parent(file_map[by]) \o imp.path.dir, file |-> imp.path.file]

NotFoundFor(name) ==
    Count(issues, LAMBDA x : x.code = "IMPORT_NOT_FOUND" /\ x.args = <<name>>)

-----------------------------------------------------------------------------
(* the model names of a list of import entries, those without one left out *)
ModelNames(imports) ==
    SelectSeq([i \in DOMAIN imports |-> imports[i].model], LAMBDA n : n # "")

Occurrences(s, x) == Count(s, LAMBDA y : y = x)

\* C14: every processed import entry with a non-empty model name adds the
\* edge (declaring model -> imported name) to import_graph, whatever becomes
\* of the import.  When resolve_model has returned after a walk (the depth
\* ceiling not hit), the edges of every loaded model are the model names of
\* its import entries, in order and with repetitions, whether the target was
\* loaded, cached, missing or unloadable; the root's edges are those of its
\* own entries, and once more those of the entries walked again when an
\* import leads back to the root's name; no other model has edges.
C14_EdgesRecorded ==
    (Returned /\ RootLoadedOk /\ NoDepthIssue /\ root_model.imports # <<>>) =>
        LET root_name == NameOr(root_model, "unknown")
            own == ModelNames(root_model.imports)
            again == IF root_name \in DOMAIN loaded_models
                     THEN ModelNames(loaded_models[root_name].imports) ELSE <<>>
        IN /\ DOMAIN import_graph \subseteq {root_name} \cup DOMAIN loaded_models
           /\ Len(import_graph[root_name]) = Len(own) + Len(again)
           /\ \A n \in Range(own) \cup Range(again) \cup Range(import_graph[root_name]) :
                 Occurrences(import_graph[root_name], n) = Occurrences(own, n) + Occurrences(again, n)
           /\ again = <<>> => import_graph[root_name] = own
           /\ \A n \in DOMAIN loaded_models \ {root_name} :
                 Get(import_graph, n, <<>>) = ModelNames(loaded_models[n].imports)

\* C14 witness: the root declares shared_dimensions twice (the second is a
\* cache hit) and shared_dimensions imports inventory, whose file does not
\* parse: both edges of the root and the edge to inventory are in the graph.
C14_Witness ==
    /\ Returned
    /\ DOMAIN import_graph = {"orders", "shared_dimensions"}
    /\ import_graph["orders"] = <<"shared_dimensions", "shared_dimensions">>
    /\ import_graph["shared_dimensions"] = <<"inventory">>
    /\ "inventory" \notin DOMAIN loaded_models
    /\ Len(IssuesOf("IMPORT_LOAD_FAILED")) = 1


-----------------------------------------------------------------------------
(* the loads of an import whose file declares another, non-empty name *)
Mismatched ==
    {j \in 2..Len(loads) :
        /\ ~LoadRaises(loads[j].path, disk)
        /\ load_yaml_model(loads[j].path, disk).name \notin {"", loads[j].name}}

\* C15: when the file found for an import declares a model name other than
\* the one requested, there is exactly one IMPORT_NAME_MISMATCH issue, of
\* severity warn, naming both; the model is cached under the requested name
\* and was stored under the alias the import asks for; and its own imports
\* were walked: its edges are in import_graph and those of its imports that
\* load are in imported_models.  Models that declare the requested name or
\* none give no such issue.
C15_NameMismatch ==
    (Returned /\ RootLoadedOk /\ NoDepthIssue) =>
        /\ Len(IssuesOf("IMPORT_NAME_MISMATCH")) = Cardinality(Mismatched)
        /\ \A j \in Mismatched :
              LET n == loads[j].name
                  doc == load_yaml_model(loads[j].path, disk)
              IN /\ Count(issues, LAMBDA x : x = Issue("warn", "IMPORT_NAME_MISMATCH",
                                                       <<n, doc.name>>, "/model/imports")) = 1
                 /\ loaded_models[n] = doc
                 /\ \E k \in DOMAIN applied :
                       /\ applied[k].imp.model = n
                       /\ applied[k].source = doc
                       /\ applied[k].alias = AliasOf(applied[k].imp)
                       /\ applied[k].alias \in Aliases(imported_models)
                 /\ n # NameOr(root_model, "unknown") =>
                       Get(import_graph, n, <<>>) = ModelNames(doc.imports)
                 /\ \A i \in DOMAIN doc.imports :
                       Loads([imp |-> doc.imports[i], by |-> n, dir |-> Parent(loads[j].path)])
                          => AliasOf(doc.imports[i]) \in Aliases(imported_models)

\* C15 witness: `inventory` is imported under the alias `shared`; its file
\* declares the name shared_dimensions and imports shared_dimensions.
C15_Witness ==
    /\ Returned
    /\ Mismatched # {}
    /\ Len(IssuesOf("IMPORT_NAME_MISMATCH")) = 1
    /\ \E i \in DOMAIN imported_models :
          /\ imported_models[i].alias = "shared"
          /\ imported_models[i].model.name = "shared_dimensions"
          /\ imported_models[i].model.entities = <<"Item">>
    /\ "inventory" \in DOMAIN import_graph
    /\ import_graph["inventory"] = <<"shared_dimensions">>
    /\ "shared_dimensions" \in Aliases(imported_models)


-----------------------------------------------------------------------------
\* C16 (as stated): every item a unified_* view returns carries the name of
\* its owning model in _source_model, and every item that comes from an
\* imported model also carries the alias of the import in _import_alias.
C16_ItemsAnnotated ==
    \A i \in DOMAIN returned.items :
        /\ HasKey(returned.items[i].value, "_source_model")
        /\ returned.items[i].obj.imported =>
              /\ HasKey(returned.items[i].value, "_import_alias")
              /\ returned.items[i].value._import_alias = returned.items[i].obj.alias

\* C17: once resolve_model has returned, no call of unified_entities,
\* unified_relationships, unified_indexes or to_graph_summary, in whatever
\* order and however often, and no change the caller makes to a returned
\* item, changes root_model, imported_models, import_graph, file_map or
\* issues, and no key (_source_model, _import_alias or the caller's) is ever
\* set on an object of a stored model.
C17_ViewsLeaveStoredModels ==
    [][Returned => /\ UNCHANGED <<root_model, imported_models, import_graph, file_map, issues>>
                   /\ stored_writes' = {}]_vars

\* C17 witness: after the summary, unified_relationships was called on a
\* result with an imported relationship and the caller changed an item.
C17_Witness ==
    /\ pc = "summarized"
    /\ returned.view = "unified_relationships"
    /\ returned.mutated
    /\ \E i \in DOMAIN returned.items : returned.items[i].obj.imported
    /\ \E i \in DOMAIN returned.items : ~returned.items[i].obj.imported
    /\ stored_writes = {}


-----------------------------------------------------------------------------
(***************************************************************************)
(* The canonicalizer (dm_core/canonical.py).                               *)
(*                                                                         *)
(* A model document is a record of its eight known top-level keys, with    *)
(* `present` the set of those the document has, and `other` its remaining  *)
(* top-level keys with their values.  An optional value inside an item is *)
(* absent, a list, a dict (a list of [key, value] in insertion order) or   *)
(* something else (scalar): isinstance() of the code tells them apart.     *)
(* Strings are atoms ordered by LexOrder; "" is a missing name, as         *)
(* item.get("name", "") has it.                                            *)
(***************************************************************************)
TopKeys == {"model", "entities", "relationships", "indexes", "rules",
            "governance", "glossary", "display"}

Absent == [kind |-> "absent", items |-> <<>>]
List(items) == [kind |-> "list", items |-> items]
Dict(pairs) == [kind |-> "dict", items |-> pairs]
Scalar(x) == [kind |-> "scalar", items |-> <<x>>]

Pair(key, value) == [key |-> key, value |-> value]

Meta(name, owners) == [name |-> name, owners |-> owners]
Field(name, type) == [name |-> name, type |-> type]
Entity(name, fields, tags) == [name |-> name, fields |-> fields, tags |-> tags]
Relationship(name, from, to, cardinality, description) ==
    [name |-> name, from |-> from, to |-> to, cardinality |-> cardinality,
     description |-> description]
IndexOn(name, entity, unique) == [name |-> name, entity |-> entity, unique |-> unique]
Rule(name, target, expression) == [name |-> name, target |-> target, expression |-> expression]
Term(term, related_fields, tags, definition) ==
    [term |-> term, related_fields |-> related_fields, tags |-> tags, definition |-> definition]
Governance(classification, stewards) ==
    [classification |-> classification, stewards |-> stewards]

(* {} where the code falls back to an empty dict *)
EmptyMeta == Meta("", Absent)
EmptyGovernance == Governance(Absent, Absent)
EmptyDisplay == "{}"

(* Python's < on tuples of strings *)
RECURSIVE KeyLess(_, _)
KeyLess(k1, k2) ==
    IF k1 = <<>> THEN k2 # <<>>
    ELSE IF k2 = <<>> THEN FALSE
    ELSE IF Head(k1) = Head(k2) THEN KeyLess(Tail(k1), Tail(k2))
    ELSE Rank(Head(k1)) < Rank(Head(k2))

(* a pair goes behind every pair whose key is not greater: sorted() is     *)
(* stable                                                                  *)
RECURSIVE InsertStable(_, _)
InsertStable(s, p) ==
    IF s = <<>> THEN <<p>>
    ELSE IF KeyLess(p.key, Head(s).key) THEN <<p>> \o s
    ELSE <<Head(s)>> \o InsertStable(Tail(s), p)

RECURSIVE SortPairs(_)
SortPairs(pairs) ==
    IF pairs = <<>> THEN <<>>
    ELSE InsertStable(SortPairs(SubSeq(pairs, 1, Len(pairs) - 1)), pairs[Len(pairs)])

(* a pair goes in front of the pairs of equal key *)
RECURSIVE InsertBeforeTies(_, _)
InsertBeforeTies(s, p) ==
    IF s = <<>> THEN <<p>>
    ELSE IF ~KeyLess(Head(s).key, p.key) THEN <<p>> \o s
    ELSE <<Head(s)>> \o InsertBeforeTies(Tail(s), p)

RECURSIVE SortPairsTiesReversed(_)
SortPairsTiesReversed(pairs) ==
    IF pairs = <<>> THEN <<>>
    ELSE InsertBeforeTies(SortPairsTiesReversed(SubSeq(pairs, 1, Len(pairs) - 1)),
                          pairs[Len(pairs)])

(* a sort that turns the items of equal key around *)
SortedTiesReversed(items, keys) ==
    LET s == SortPairsTiesReversed([i \in DOMAIN items |-> [key |-> keys[i], item |-> items[i]]])
    IN [i \in DOMAIN s |-> s[i].item]

(* sorted(items, key=...), keys[i] the key of items[i] *)
sorted(items, keys) ==
    LET s == SortPairs([i \in DOMAIN items |-> [key |-> keys[i], item |-> items[i]]])
    IN [i \in DOMAIN s |-> s[i].item]

(* sorted(strings) *)
SortedStrings(strings) == sorted(strings, [i \in DOMAIN strings |-> <<strings[i]>>])

(* if isinstance(value, list): value = sorted(value) *)
SortIfList(value) ==
    IF value.kind = "list" THEN List(SortedStrings(value.items)) ELSE value

(* if isinstance(value, dict): {key: value[key] for key in sorted(value.keys())} *)
SortKeysIfDict(value) ==
    IF value.kind = "dict"
    THEN Dict(sorted(value.items, [i \in DOMAIN value.items |-> <<value.items[i].key>>]))
    ELSE value

(* entity.get("fields", []) and its like *)
ItemsOr(value) == IF value.kind = "absent" THEN <<>> ELSE value.items

_sort_fields(fields) == sorted(fields, [i \in DOMAIN fields |-> <<fields[i].name>>])

_sort_entities(entities) ==
    LET sorted_entities ==
            [i \in DOMAIN entities |->
                [entities[i] EXCEPT !.fields = List(_sort_fields(ItemsOr(entities[i].fields))),
                                    !.tags = SortIfList(entities[i].tags)]]
    IN sorted(sorted_entities, [i \in DOMAIN sorted_entities |-> <<sorted_entities[i].name>>])

_sort_relationships(relationships) ==
    sorted(relationships,
           [i \in DOMAIN relationships |->
               <<relationships[i].name, relationships[i].from, relationships[i].to,
                 relationships[i].cardinality>>])

_sort_rules(rules) == sorted(rules, [i \in DOMAIN rules |-> <<rules[i].name, rules[i].target>>])

(* indexes in the order of (entity, name) *)
SortIndexesByEntity(indexes) ==
    sorted(indexes, [i \in DOMAIN indexes |-> <<indexes[i].entity, indexes[i].name>>])

_sort_indexes(indexes) ==
    sorted(indexes, [i \in DOMAIN indexes |-> <<indexes[i].name, indexes[i].entity>>])

(* terms in order, their related_fields left as they come *)
SortGlossaryTermsOnly(glossary) ==
    LET sorted_terms == [i \in DOMAIN glossary |->
                            [glossary[i] EXCEPT !.tags = SortIfList(glossary[i].tags)]]
    IN sorted(sorted_terms, [i \in DOMAIN sorted_terms |-> <<sorted_terms[i].term>>])

_sort_glossary(glossary) ==
    LET sorted_terms ==
            [i \in DOMAIN glossary |->
                [glossary[i] EXCEPT !.related_fields = SortIfList(glossary[i].related_fields),
                                    !.tags = SortIfList(glossary[i].tags)]]
    IN sorted(sorted_terms, [i \in DOMAIN sorted_terms |-> <<sorted_terms[i].term>>])

(* model.get(key, default) of a top-level key *)
TopGet(model, key, default) == IF key \in model.present THEN model[key] ELSE default

compile_model(model) ==
    LET meta == TopGet(model, "model", EmptyMeta)
        governance == TopGet(model, "governance", EmptyGovernance)
    IN [present |-> TopKeys,
        model |-> [meta EXCEPT !.owners = SortIfList(meta.owners)],
        entities |-> _sort_entities(TopGet(model, "entities", <<>>)),
        relationships |-> _sort_relationships(TopGet(model, "relationships", <<>>)),
        indexes |-> _sort_indexes(TopGet(model, "indexes", <<>>)),
        rules |-> _sort_rules(TopGet(model, "rules", <<>>)),
        governance |-> [governance EXCEPT !.classification = SortKeysIfDict(governance.classification),
                                          !.stewards = SortKeysIfDict(governance.stewards)],
        glossary |-> _sort_glossary(TopGet(model, "glossary", <<>>)),
        display |-> TopGet(model, "display", EmptyDisplay),
        other |-> <<>>]

(* The items of the lists of a document are Python dicts, and two lists    *)
(* can hold the same dict.  InputObject(key, i) is the dict at place i of  *)
(* the list under `key` of the document given to compile_model;            *)
(* deepcopy() of it is another dict.                                       *)
ListKeys == {"entities", "relationships", "indexes", "rules", "glossary"}

InputObject(key, i) == [kind |-> "input", key |-> key, i |-> i, written |-> FALSE]

InputObjects(model, key) ==
    [i \in DOMAIN TopGet(model, key, <<>>) |-> InputObject(key, i)]

Clones(model, key) ==
    [i \in DOMAIN TopGet(model, key, <<>>) |-> deepcopy(InputObject(key, i))]

(* the dicts the lists of compile_model(model) hold, place by place:       *)
(* _sort_entities, _sort_glossary clone each item, _sort_indexes sorts a   *)
(* deepcopy of the list, _sort_relationships and _sort_rules sort the      *)
(* items they are given                                                    *)
CanonicalObjects(model) ==
    LET entities == TopGet(model, "entities", <<>>)
        relationships == TopGet(model, "relationships", <<>>)
        indexes == TopGet(model, "indexes", <<>>)
        rules == TopGet(model, "rules", <<>>)
        glossary == TopGet(model, "glossary", <<>>)
    IN [entities |-> sorted(Clones(model, "entities"),
                            [i \in DOMAIN entities |-> <<entities[i].name>>]),
        relationships |-> sorted(InputObjects(model, "relationships"),
                                 [i \in DOMAIN relationships |->
                                     <<relationships[i].name, relationships[i].from,
                                       relationships[i].to, relationships[i].cardinality>>]),
        indexes |-> sorted(Clones(model, "indexes"),
                           [i \in DOMAIN indexes |-> <<indexes[i].name, indexes[i].entity>>]),
        rules |-> sorted(InputObjects(model, "rules"),
                         [i \in DOMAIN rules |-> <<rules[i].name, rules[i].target>>]),
        glossary |-> sorted(Clones(model, "glossary"),
                            [i \in DOMAIN glossary |-> <<glossary[i].term>>])]


-----------------------------------------------------------------------------
(* The documents compile_model is run on: each family varies one part of   *)
(* a small document                                                        *)
BaseDocument ==
    [present |-> TopKeys,
     model |-> Meta("orders", Absent),
     entities |-> <<>>, relationships |-> <<>>, indexes |-> <<>>, rules |-> <<>>,
     governance |-> EmptyGovernance,
     glossary |-> <<>>,
     display |-> "layout",
     other |-> <<>>]

EntityChoices ==
    { Entity(n, v[1], v[2]) :
        n \in {"a", "b"},
        v \in { <<Absent, Absent>>,
                <<List(<<>>), List(<<>>)>>,
                <<List(<<Field("b", "int"), Field("a", "int")>>), List(<<"b", "a">>)>>,
                <<List(<<Field("a", "int"), Field("a", "text")>>), Scalar("pii")>> } }

RelationshipChoices ==
    { Relationship("a", "a", "a", "many_to_one", "x"),
      Relationship("a", "a", "a", "many_to_one", "y"),
      Relationship("a", "a", "a", "one_to_many", "x"),
      Relationship("a", "a", "b", "many_to_one", "x"),
      Relationship("a", "b", "a", "many_to_one", "x"),
      Relationship("b", "a", "a", "many_to_one", "x"),
      Relationship("", "b", "b", "one_to_many", "x") }

IndexChoices ==
    { IndexOn("a", "a", TRUE), IndexOn("a", "a", FALSE), IndexOn("a", "b", TRUE),
      IndexOn("b", "a", TRUE), IndexOn("", "c", TRUE) }

RuleChoices ==
    { Rule("a", "a", "x"), Rule("a", "a", "y"), Rule("a", "b", "x"),
      Rule("b", "a", "x"), Rule("", "c", "x") }

TermChoices ==
    { Term("a", Absent, Absent, "x"),
      Term("a", List(<<"b", "a">>), List(<<"c", "a">>), "y"),
      Term("b", List(<<"a", "b">>), Scalar("pii"), "x"),
      Term("b", Scalar("a"), List(<<>>), "x"),
      Term("", List(<<"c", "b", "a">>), Absent, "x") }

MapChoices ==
    { Absent, Scalar("none"), Dict(<<>>),
      Dict(<<Pair("b", "x"), Pair("a", "y")>>),
      Dict(<<Pair("a", "y"), Pair("c", "x"), Pair("b", "x")>>) }

OwnerChoices ==
    { Absent, Scalar("team"), List(<<>>), List(<<"b", "a">>), List(<<"c", "a", "b">>),
      List(<<"a", "a", "">>) }

(* the top-level keys of a document besides the eight of TopKeys, as a     *)
(* list of [key, value]: a model file has `imports`, and may have more     *)
OtherChoices ==
    { <<Pair("imports", "shared")>>,
      <<Pair("metrics", "x"), Pair("imports", "shared")>> }

(* a document with something under every key, out of order *)
FullDocument ==
    [present |-> TopKeys,
     model |-> Meta("orders", List(<<"b", "a">>)),
     entities |-> <<Entity("b", Absent, Absent),
                    Entity("a", List(<<Field("b", "int"), Field("a", "int")>>), List(<<"b", "a">>))>>,
     relationships |-> <<Relationship("b", "a", "a", "many_to_one", "x"),
                         Relationship("a", "a", "a", "many_to_one", "x")>>,
     indexes |-> <<IndexOn("b", "a", TRUE), IndexOn("a", "a", TRUE)>>,
     rules |-> <<Rule("b", "a", "x"), Rule("a", "a", "x")>>,
     governance |-> Governance(Dict(<<Pair("b", "x"), Pair("a", "y")>>), Absent),
     glossary |-> <<Term("b", Absent, Absent, "x"), Term("a", Absent, Absent, "x")>>,
     display |-> "layout",
     other |-> <<>>]

(* the document without the top-level keys outside `keys` *)
Keep(doc, keys) ==
    [present |-> keys,
     model |-> IF "model" \in keys THEN doc.model ELSE EmptyMeta,
     entities |-> IF "entities" \in keys THEN doc.entities ELSE <<>>,
     relationships |-> IF "relationships" \in keys THEN doc.relationships ELSE <<>>,
     indexes |-> IF "indexes" \in keys THEN doc.indexes ELSE <<>>,
     rules |-> IF "rules" \in keys THEN doc.rules ELSE <<>>,
     governance |-> IF "governance" \in keys THEN doc.governance ELSE EmptyGovernance,
     glossary |-> IF "glossary" \in keys THEN doc.glossary ELSE <<>>,
     display |-> IF "display" \in keys THEN doc.display ELSE EmptyDisplay,
     other |-> doc.other]

Documents ==
    {[BaseDocument EXCEPT !.entities = c] : c \in SeqsUpTo(EntityChoices, MaxItems)}
    \cup {[BaseDocument EXCEPT !.relationships = c] : c \in SeqsUpTo(RelationshipChoices, MaxItems)}
    \cup {[BaseDocument EXCEPT !.indexes = c] : c \in SeqsUpTo(IndexChoices, MaxItems)}
    \cup {[BaseDocument EXCEPT !.rules = c] : c \in SeqsUpTo(RuleChoices, MaxItems)}
    \cup {[BaseDocument EXCEPT !.glossary = c] : c \in SeqsUpTo(TermChoices, MaxItems)}
    \cup {[BaseDocument EXCEPT !.governance = Governance(c, s), !.model = Meta("orders", o)] :
            c \in MapChoices, s \in MapChoices, o \in OwnerChoices}
    \cup {Keep(FullDocument, keys) : keys \in SUBSET TopKeys}
    \cup {[d EXCEPT !.other = o] : d \in {BaseDocument, FullDocument}, o \in OtherChoices}

(* every order of a list *)
PermsOf(s) == {[i \in DOMAIN s |-> s[p[i]]] : p \in Permutations(DOMAIN s)}

(* every order of a value that is a list or a dict *)
PermsOfValue(value) ==
    IF value.kind \in {"list", "dict"}
    THEN {[value EXCEPT !.items = q] : q \in PermsOf(value.items)}
    ELSE {value}

(* the documents that differ from doc in the order of one collection *)
OnePermuted(doc) ==
    {[doc EXCEPT !.entities = q] : q \in PermsOf(doc.entities)}
    \cup UNION {{[doc EXCEPT !.entities[i].fields = q] : q \in PermsOfValue(doc.entities[i].fields)}
                    : i \in DOMAIN doc.entities}
    \cup UNION {{[doc EXCEPT !.entities[i].tags = q] : q \in PermsOfValue(doc.entities[i].tags)}
                    : i \in DOMAIN doc.entities}
    \cup {[doc EXCEPT !.relationships = q] : q \in PermsOf(doc.relationships)}
    \cup {[doc EXCEPT !.indexes = q] : q \in PermsOf(doc.indexes)}
    \cup {[doc EXCEPT !.rules = q] : q \in PermsOf(doc.rules)}
    \cup {[doc EXCEPT !.glossary = q] : q \in PermsOf(doc.glossary)}
    \cup UNION {{[doc EXCEPT !.glossary[i].related_fields = q] :
                    q \in PermsOfValue(doc.glossary[i].related_fields)} : i \in DOMAIN doc.glossary}
    \cup UNION {{[doc EXCEPT !.glossary[i].tags = q] : q \in PermsOfValue(doc.glossary[i].tags)}
                    : i \in DOMAIN doc.glossary}
    \cup {[doc EXCEPT !.model.owners = q] : q \in PermsOfValue(doc.model.owners)}
    \cup {[doc EXCEPT !.governance.classification = q] :
            q \in PermsOfValue(doc.governance.classification)}
    \cup {[doc EXCEPT !.governance.stewards = q] : q \in PermsOfValue(doc.governance.stewards)}

(* canonical = compile_model(document) *)
Compile ==
    /\ document # NoDocument
    /\ canonical = NotCompiled
    /\ canonical' = compile_model(document)
    /\ canonical_objects' = CanonicalObjects(document)
    /\ UNCHANGED <<aux_vars, resolver_vars, view_vars, document, recompiled, permuted, canonical_permuted>>

(* the result is compiled again *)
Recompile ==
    /\ canonical # NotCompiled
    /\ recompiled = NotCompiled
    /\ recompiled' = compile_model(canonical)
    /\ UNCHANGED <<aux_vars, resolver_vars, view_vars, document, canonical, permuted, canonical_permuted,
                   canonical_objects>>

(* the same document with one collection in another order is compiled *)
CompilePermuted ==
    /\ canonical # NotCompiled
    /\ permuted = NoDocument
    /\ \E m \in OnePermuted(document) \ {document} :
          /\ permuted' = m
          /\ canonical_permuted' = compile_model(m)
    /\ UNCHANGED <<aux_vars, resolver_vars, view_vars, document, canonical, recompiled, canonical_objects>>

InitCanon ==
    /\ disk = EmptyDict
    /\ search_dirs = <<>>
    /\ Fresh
    /\ document \in Documents
    /\ NothingCompiled
    /\ AuxIdle

NextCanon ==
    \/ Compile
    \/ Recompile
    \/ CompilePermuted

SpecCanon == InitCanon /\ [][NextCanon]_vars

(* what a caller sets on an item of the result: a key the sort does not    *)
(* look at                                                                 *)
Changed(key, item) ==
    CASE key = "entities" -> [item EXCEPT !.tags = Scalar("changed")]
      [] key = "relationships" -> [item EXCEPT !.description = "changed"]
      [] key = "indexes" -> [item EXCEPT !.unique = ~@]
      [] key = "rules" -> [item EXCEPT !.expression = "changed"]
      [] key = "glossary" -> [item EXCEPT !.definition = "changed"]

(* the caller of compile_model changes an item of the result it holds: the *)
(* write goes to the dict at that place, and shows wherever that dict is   *)
MutateCanonical ==
    /\ canonical # NotCompiled
    /\ \E key \in ListKeys : \E i \in DOMAIN canonical[key] :
          LET obj == canonical_objects[key][i]
          IN /\ ~obj.written
             /\ canonical' = [canonical EXCEPT ![key][i] = Changed(key, @)]
             /\ canonical_objects' = [canonical_objects EXCEPT ![key][i].written = TRUE]
             /\ document' = IF obj.kind = "input"
                            THEN [document EXCEPT ![key][obj.i] = Changed(key, @)]
                            ELSE document
    /\ UNCHANGED <<aux_vars, resolver_vars, view_vars, recompiled, permuted, canonical_permuted>>

NextCanonCaller ==
    \/ Compile
    \/ MutateCanonical

SpecCanonCaller == InitCanon /\ [][NextCanonCaller]_vars


-----------------------------------------------------------------------------
\* C18: compile_model is idempotent: compiling the result once more gives
\* the same document, the order of every list and of the keys of
\* governance.classification and governance.stewards included.
C18_Idempotent == recompiled # NotCompiled => recompiled = canonical

\* C18 witness: a document with two relationships of equal sort key and
\* different descriptions, and one with an unsorted classification map, were
\* compiled twice.
C18_Witness ==
    /\ recompiled # NotCompiled
    /\ \/ /\ Len(document.relationships) = 2
          /\ document.relationships[1].description = "y"
          /\ document.relationships[2] = [document.relationships[1] EXCEPT !.description = "x"]
       \/ /\ document.governance.classification = Dict(<<Pair("b", "x"), Pair("a", "y")>>)
          /\ document.model.owners = List(<<"c", "a", "b">>)
    /\ canonical # document

(* no two different items of a list have the same sort key *)
NoTies(items, keys) ==
    \A i, j \in DOMAIN items : keys[i] = keys[j] => items[i] = items[j]

DistinctKeys(doc) ==
    /\ NoTies(doc.entities, [i \in DOMAIN doc.entities |-> <<doc.entities[i].name>>])
    /\ \A e \in DOMAIN doc.entities :
          LET fields == ItemsOr(doc.entities[e].fields)
          IN NoTies(fields, [i \in DOMAIN fields |-> <<fields[i].name>>])
    /\ NoTies(doc.relationships,
              [i \in DOMAIN doc.relationships |->
                  <<doc.relationships[i].name, doc.relationships[i].from,
                    doc.relationships[i].to, doc.relationships[i].cardinality>>])
    /\ NoTies(doc.indexes, [i \in DOMAIN doc.indexes |-> <<doc.indexes[i].name, doc.indexes[i].entity>>])
    /\ NoTies(doc.rules, [i \in DOMAIN doc.rules |-> <<doc.rules[i].name, doc.rules[i].target>>])
    /\ NoTies(doc.glossary, [i \in DOMAIN doc.glossary |-> <<doc.glossary[i].term>>])

\* C19 (as stated): for every document and every other order of one of its
\* collections, compile_model gives the same result for both.
C19_OrderInsensitiveAsStated ==
    canonical_permuted # NotCompiled => canonical_permuted = canonical

\* C19: when no two different items of a sorted list of the document have the
\* same sort key (entities and fields by name, relationships by (name, from,
\* to, cardinality), indexes by (name, entity), rules by (name, target),
\* glossary terms by term), compile_model gives the same result for the
\* document and for the document with any one collection in another order:
\* entities, an entity's fields or tags, relationships, indexes, rules,
\* glossary terms, a term's related_fields or tags, owners, the keys of
\* governance.classification or governance.stewards.
C19_OrderInsensitive ==
    (canonical_permuted # NotCompiled /\ DistinctKeys(document)) =>
        canonical_permuted = canonical

\* C19 witness: the related_fields of a glossary term were given in another
\* order, in a document of two terms without equal keys.
C19_Witness ==
    /\ canonical_permuted # NotCompiled
    /\ DistinctKeys(document)
    /\ Len(document.glossary) = 2
    /\ document.glossary[1].term # document.glossary[2].term
    /\ \E i \in DOMAIN document.glossary :
          /\ document.glossary[i].related_fields.kind = "list"
          /\ permuted.glossary[i].related_fields # document.glossary[i].related_fields
    /\ canonical # document

(* the keys do not go down along the list *)
Ascending(keys) == \A i \in 1..(Len(keys) - 1) : ~KeyLess(keys[i + 1], keys[i])

AscendingStrings(value) ==
    value.kind = "list" => Ascending([i \in DOMAIN value.items |-> <<value.items[i]>>])

AscendingKeys(value) ==
    value.kind = "dict" => Ascending([i \in DOMAIN value.items |-> <<value.items[i].key>>])

(* what a missing top-level key comes out as *)
EmptyOf(key) ==
    IF key = "model" THEN EmptyMeta
    ELSE IF key = "governance" THEN EmptyGovernance
    ELSE IF key = "display" THEN EmptyDisplay
    ELSE <<>>

\* C20: in the result of compile_model the entities are in ascending order
\* of name and the fields of each entity in ascending order of name,
\* relationships in ascending order of (name, from, to, cardinality), indexes
\* of (name, entity), rules of (name, target), glossary terms of term; tags,
\* related_fields and model.owners, where they are lists, and the keys of
\* governance.classification and governance.stewards, where they are maps,
\* are in ascending order; every top-level key the input lacks is there with
\* an empty value, and every entity has a list of fields.
C20_SortedOutput ==
    canonical # NotCompiled =>
        /\ canonical.present = TopKeys
        /\ \A k \in TopKeys \ document.present : canonical[k] = EmptyOf(k)
        /\ Ascending([i \in DOMAIN canonical.entities |-> <<canonical.entities[i].name>>])
        /\ \A e \in DOMAIN canonical.entities :
              /\ canonical.entities[e].fields.kind = "list"
              /\ Ascending([i \in DOMAIN canonical.entities[e].fields.items |->
                               <<canonical.entities[e].fields.items[i].name>>])
              /\ AscendingStrings(canonical.entities[e].tags)
        /\ Ascending([i \in DOMAIN canonical.relationships |->
                         <<canonical.relationships[i].name, canonical.relationships[i].from,
                           canonical.relationships[i].to, canonical.relationships[i].cardinality>>])
        /\ Ascending([i \in DOMAIN canonical.indexes |->
                         <<canonical.indexes[i].name, canonical.indexes[i].entity>>])
        /\ Ascending([i \in DOMAIN canonical.rules |->
                         <<canonical.rules[i].name, canonical.rules[i].target>>])
        /\ Ascending([i \in DOMAIN canonical.glossary |-> <<canonical.glossary[i].term>>])
        /\ \A t \in DOMAIN canonical.glossary :
              /\ AscendingStrings(canonical.glossary[t].related_fields)
              /\ AscendingStrings(canonical.glossary[t].tags)
        /\ AscendingStrings(canonical.model.owners)
        /\ AscendingKeys(canonical.governance.classification)
        /\ AscendingKeys(canonical.governance.stewards)
        /\ Len(canonical.entities) = Len(TopGet(document, "entities", <<>>))
        /\ Len(canonical.indexes) = Len(TopGet(document, "indexes", <<>>))

\* C20 witness: a document without glossary and rules whose two indexes are
\* given in descending order of name.
C20_Witness ==
    /\ canonical # NotCompiled
    /\ document.present = TopKeys \ {"glossary", "rules"}
    /\ Len(document.indexes) = 2
    /\ canonical.indexes = <<document.indexes[2], document.indexes[1]>>
    /\ canonical.glossary = <<>>
    /\ document.entities[1].fields = Absent
    /\ canonical.entities[2].fields = List(<<>>)

-----------------------------------------------------------------------------
\* C21 (as stated): compile_model never changes the document it is given,
\* and nothing the caller changes in an entity, relationship, index, rule or
\* glossary term of the result changes that document: the document stays as
\* it was given through the call and through every write to the result.
C21_InputUntouched == [][document' = document]_vars

-----------------------------------------------------------------------------
(* t holds the items of s in some order, each kept as R says *)
SameUpTo(s, t, R(_, _)) ==
    /\ Len(s) = Len(t)
    /\ \E p \in Permutations(DOMAIN s) : \A i \in DOMAIN s : R(s[p[i]], t[i])

(* a list or map comes out with the same members, anything else as it was *)
Reordered(value, out) ==
    IF value.kind \in {"list", "dict"}
    THEN out.kind = value.kind /\ SameUpTo(value.items, out.items, LAMBDA x, y : x = y)
    ELSE out = value

EntityKept(entity, out) ==
    /\ out.name = entity.name
    /\ Reordered(entity.tags, out.tags)
    /\ entity.fields.kind # "absent" => Reordered(entity.fields, out.fields)

TermKept(term, out) ==
    /\ out.term = term.term
    /\ out.definition = term.definition
    /\ Reordered(term.related_fields, out.related_fields)
    /\ Reordered(term.tags, out.tags)

\* C22 (as stated): compile_model only reorders.  Every top-level key of the
\* document, those besides model, entities, relationships, indexes, rules,
\* governance, glossary and display included, is a key of the result with
\* the same value up to the order of the sorted lists and maps; every item
\* of a list is in the result with all its keys, those the sort does not
\* look at included.
C22_OnlyReorders ==
    canonical # NotCompiled =>
        /\ document.present \subseteq canonical.present
        /\ \A i \in DOMAIN document.other :
              \E j \in DOMAIN canonical.other : canonical.other[j] = document.other[i]
        /\ "model" \in document.present =>
              /\ canonical.model.name = document.model.name
              /\ Reordered(document.model.owners, canonical.model.owners)
        /\ "governance" \in document.present =>
              /\ Reordered(document.governance.classification, canonical.governance.classification)
              /\ Reordered(document.governance.stewards, canonical.governance.stewards)
        /\ "display" \in document.present => canonical.display = document.display
        /\ SameUpTo(document.entities, canonical.entities, EntityKept)
        /\ SameUpTo(document.relationships, canonical.relationships, LAMBDA x, y : x = y)
        /\ SameUpTo(document.indexes, canonical.indexes, LAMBDA x, y : x = y)
        /\ SameUpTo(document.rules, canonical.rules, LAMBDA x, y : x = y)
        /\ SameUpTo(document.glossary, canonical.glossary, TermKept)

-----------------------------------------------------------------------------
(***************************************************************************)
(* The command line (dm_cli/main.py): the commands whose return value is   *)
(* the exit status of the process.  What the validator and the differ      *)
(* answer is an input of the command: their issues and the                 *)
(* has_breaking_changes flag of the diff.                                  *)
(***************************************************************************)
Severities == {"error", "warn", "info"}

(* has_errors that takes a warning for an error *)
HasErrorsOrWarnings(iss) == \E i \in DOMAIN iss : iss[i].severity \in {"error", "warn"}

(* dm_core.issues.has_errors *)
has_errors(iss) == \E i \in DOMAIN iss : iss[i].severity = "error"

IssueLists ==
    {[i \in DOMAIN sev |-> Issue(sev[i], "VALIDATION", <<>>, NoPath)] :
        sev \in SeqsUpTo(Severities, MaxIssues)}

(* dm gate OLD NEW [--allow-breaking] *)
Gate(old_issues, new_issues, has_breaking_changes, allow_breaking) ==
    [name |-> "gate", old_issues |-> old_issues, new_issues |-> new_issues,
     has_breaking_changes |-> has_breaking_changes, allow_breaking |-> allow_breaking]

(* dm diff-all OLD NEW [--allow-breaking] *)
DiffAll(has_breaking_changes, allow_breaking) ==
    [name |-> "diff-all", old_issues |-> <<>>, new_issues |-> <<>>,
     has_breaking_changes |-> has_breaking_changes, allow_breaking |-> allow_breaking]

Commands ==
    {Gate(o, n, b, a) : o \in IssueLists, n \in IssueLists, b \in BOOLEAN, a \in BOOLEAN}
    \cup {DiffAll(b, a) : b \in BOOLEAN, a \in BOOLEAN}

(* the test without the override flag *)
BreakingAlways(cmd) == cmd.has_breaking_changes

(* if diff["has_breaking_changes"] and not args.allow_breaking: return 2 *)
BreakingWithoutOverride(cmd) == cmd.has_breaking_changes /\ ~cmd.allow_breaking

cmd_gate ==
    /\ command.name = "gate"
    /\ exit_code = NoExit
    /\ LET combined_issues == command.old_issues \o command.new_issues
       IN IF has_errors(combined_issues)
          THEN /\ exit_code' = 1
               /\ UNCHANGED diff_calls
          ELSE /\ diff_calls' = diff_calls + 1
               /\ exit_code' = IF BreakingWithoutOverride(command) THEN 2 ELSE 0
    /\ UNCHANGED <<command, project_vars, ddl_vars, resolver_vars, view_vars, canon_vars>>

cmd_diff_all ==
    /\ command.name = "diff-all"
    /\ exit_code = NoExit
    /\ diff_calls' = diff_calls + 1
    /\ exit_code' = IF BreakingWithoutOverride(command) THEN 2 ELSE 0
    /\ UNCHANGED <<command, project_vars, ddl_vars, resolver_vars, view_vars, canon_vars>>

(* no resolution runs *)
NoResolution == disk = EmptyDict /\ search_dirs = <<>> /\ Fresh

InitGate ==
    /\ NoResolution
    /\ document = NoDocument
    /\ NothingCompiled
    /\ command \in Commands
    /\ NoExitYet
    /\ NoProject
    /\ NoDdl

NextGate ==
    \/ cmd_gate
    \/ cmd_diff_all

SpecGate == InitGate /\ [][NextGate]_vars

\* C23: `gate` returns 1 when the old or the new model has a validation
\* error, with or without --allow-breaking and without computing the diff;
\* otherwise 2 when the diff has breaking changes and --allow-breaking is not
\* given; otherwise 0.  `diff-all` returns 2 exactly when the project diff
\* has breaking changes and --allow-breaking is not given, otherwise 0.
C23_GateExitCodes ==
    exit_code # NoExit =>
        LET invalid ==
                \/ \E i \in DOMAIN command.old_issues : command.old_issues[i].severity = "error"
                \/ \E i \in DOMAIN command.new_issues : command.new_issues[i].severity = "error"
            breaking == command.has_breaking_changes /\ ~command.allow_breaking
        IN /\ command.name = "gate" =>
                /\ invalid => (exit_code = 1 /\ diff_calls = 0)
                /\ (~invalid /\ breaking) => exit_code = 2
                /\ (~invalid /\ ~breaking) => exit_code = 0
           /\ command.name = "diff-all" =>
                /\ (exit_code = 2) = breaking
                /\ exit_code \in {0, 2}

\* C23 witness: `gate --allow-breaking` returned on a new model with a
\* warning and an error whose diff would be breaking.
C23_Witness ==
    /\ command.name = "gate"
    /\ command.allow_breaking
    /\ command.has_breaking_changes
    /\ command.old_issues = <<>>
    /\ Len(command.new_issues) = 2
    /\ command.new_issues[1].severity = "warn"
    /\ command.new_issues[2].severity = "error"
    /\ exit_code = 1

-----------------------------------------------------------------------------
(***************************************************************************)
(* resolve_project (resolver.py, lines 432-456) and the commands `resolve` *)
(* and `resolve-project` (main.py).  resolve_project calls resolve_model   *)
(* on each model file below the project directory, one call after the      *)
(* other; each call is a run of the resolver from LoadRoot to              *)
(* CheckDuplicates.  To compare, resolve_model is afterwards called on     *)
(* each of the files alone.                                                *)
(***************************************************************************)

(* dm resolve MODEL [--search-dir ...] *)
Resolve == [name |-> "resolve"]

(* dm resolve-project DIRECTORY [--search-dir ...] *)
ResolveProject == [name |-> "resolve-project"]

(* Path ordering: the parts of the path, one by one *)
PathKey(path) == path.dir \o path.file

RECURSIVE SortedPaths(_)
SortedPaths(S) ==
    IF S = {} THEN <<>>
    ELSE LET m == CHOOSE x \in S : \A y \in S \ {x} : KeyLess(PathKey(x), PathKey(y))
         IN <<m>> \o SortedPaths(S \ {m})

(* sorted(list(project_path.rglob("*.model.yaml")) +                       *)
(*        list(project_path.rglob("*.model.yml")))                         *)
ModelFilesUnder(project_path, fs) ==
    SortedPaths({p \in DOMAIN fs : IsPrefix(project_path, p.dir) /\ p.file[2] = "yaml"}
                \cup {p \in DOMAIN fs : IsPrefix(project_path, p.dir) /\ p.file[2] = "yml"})

(* the ResolvedModel a call of resolve_model returns *)
ResultOf ==
    [root_model |-> root_model, imported_models |-> imported_models,
     import_graph |-> import_graph, file_map |-> file_map, issues |-> issues]

(* a cache that outlives the call *)
KeptCache(cache) == cache

(* loaded_models: Dict[str, Dict[str, Any]] = {} *)
NewCache(cache) == EmptyDict

(* resolve_model is entered: a new ResolvedModel, a new cache *)
EnterResolveModel(path) ==
    /\ root_path' = path
    /\ pc' = "start"
    /\ root_model' = EmptyModel
    /\ imported_models' = <<>>
    /\ import_graph' = EmptyDict
    /\ file_map' = EmptyDict
    /\ issues' = <<>>
    /\ loaded_models' = NewCache(loaded_models)
    /\ stack' = <<>>
    /\ loads' = <<>>
    /\ lookups' = <<>>
    /\ applied' = <<>>
    /\ UNCHANGED <<disk, search_dirs, summary>>

(* for model_file in model_files: resolve_model(str(model_file), ...) *)
CallResolveModel ==
    /\ pc = "project"
    /\ model_files # <<>>
    /\ EnterResolveModel(Head(model_files))
    /\ UNCHANGED <<cli_vars, project_vars, ddl_vars, canon_vars, view_vars>>

(* results[str(model_file)] = resolved *)
StoreResult ==
    /\ pc = "done"
    /\ model_files # <<>>
    /\ results' = Append(results, [path |-> root_path, result |-> ResultOf])
    /\ model_files' = Tail(model_files)
    /\ pc' = "project"
    /\ UNCHANGED <<cli_vars, alone, ddl_vars, canon_vars, view_vars, disk, search_dirs, root_path,
                   root_model, imported_models, import_graph, file_map, issues, loaded_models,
                   stack, loads, lookups, applied, summary>>

(* return results *)
ReturnResults ==
    /\ pc = "project"
    /\ model_files = <<>>
    /\ pc' = "resolved"
    /\ UNCHANGED <<cli_vars, project_vars, ddl_vars, canon_vars, view_vars, disk, search_dirs,
                   root_path, root_model, imported_models, import_graph, file_map, issues,
                   loaded_models, stack, loads, lookups, applied, summary>>

(* total_issues += len(resolved.issues), over the results *)
TotalIssues(res) == SeqSum([i \in DOMAIN res |-> Len(res[i].result.issues)])

(* any(i.severity == "error" for i in resolved.issues) *)
AnyError(iss) == \E i \in DOMAIN iss : iss[i].severity = "error"

(* return 1 if has_errs else 0, after the summary was printed *)
cmd_resolve ==
    /\ command.name = "resolve"
    /\ pc = "summarized"
    /\ exit_code = NoExit
    /\ exit_code' = IF AnyError(issues) THEN 1 ELSE 0
    /\ UNCHANGED <<command, diff_calls, project_vars, ddl_vars, canon_vars, view_vars, resolver_vars>>

(* return 1 if total_issues > 0 else 0 *)
cmd_resolve_project ==
    /\ command.name = "resolve-project"
    /\ pc = "resolved"
    /\ exit_code = NoExit
    /\ exit_code' = IF TotalIssues(results) > 0 THEN 1 ELSE 0
    /\ UNCHANGED <<command, diff_calls, project_vars, ddl_vars, canon_vars, view_vars, resolver_vars>>

(* resolve_model is called on the next of the project's files, alone, with *)
(* the same search directories                                             *)
ResolveAlone ==
    /\ pc = "resolved"
    /\ exit_code # NoExit
    /\ Len(alone) < Len(results)
    /\ root_path' = results[Len(alone) + 1].path
    /\ pc' = "start"
    /\ root_model' = EmptyModel
    /\ imported_models' = <<>>
    /\ import_graph' = EmptyDict
    /\ file_map' = EmptyDict
    /\ issues' = <<>>
    /\ loaded_models' = EmptyDict
    /\ stack' = <<>>
    /\ loads' = <<>>
    /\ lookups' = <<>>
    /\ applied' = <<>>
    /\ UNCHANGED <<disk, search_dirs, summary, cli_vars, project_vars, ddl_vars, canon_vars, view_vars>>

StoreAlone ==
    /\ pc = "done"
    /\ model_files = <<>>
    /\ command.name = "resolve-project"
    /\ alone' = Append(alone, [path |-> root_path, result |-> ResultOf])
    /\ pc' = "resolved"
    /\ UNCHANGED <<cli_vars, model_files, results, ddl_vars, canon_vars, view_vars, disk,
                   search_dirs, root_path, root_model, imported_models, import_graph, file_map,
                   issues, loaded_models, stack, loads, lookups, applied, summary>>

(* the projects: orders in the project directory, shared_dimensions in a   *)
(* subdirectory, inventory nowhere, in the project, in a hidden directory  *)
(* of it or in a library directory                                         *)
TreeImports ==
    { <<>>, <<Imp("shared_dimensions")>>, <<Imp("inventory")>>,
      <<Imp("shared_dimensions"), Imp("inventory")>> }

TreeSubImports == { <<>>, <<Imp("inventory")>>, <<Imp("orders")>> }

InventoryPlaces ==
    { ModelFile(RootDir, "inventory", "yml"),
      ModelFile(RootDir \o <<".git">>, "inventory", "yaml"),
      ModelFile(Lib1, "inventory", "yaml") }

InventoryDocs ==
    { GoodFile(Doc("inventory", <<>>, <<"Item">>, <<>>)),
      GoodFile(Doc("shared_dimensions", <<>>, <<"Item">>, <<>>)),
      GoodFile(Doc("inventory", <<>>, <<"Customer">>, <<>>)),
      BadFile }

TreeDisks ==
    { (RootFile :> GoodFile(Doc("orders", ri, <<"Order">>, <<>>)))
      @@ (ModelFile(SubA, "shared_dimensions", "yaml")
            :> GoodFile(Doc("shared_dimensions", si, <<"Customer">>, <<>>)))
      @@ inv :
        ri \in TreeImports, si \in TreeSubImports,
        inv \in {EmptyDict} \cup {p :> d : p \in InventoryPlaces, d \in InventoryDocs} }
    \cup { ModelFile(Lib1, "inventory", "yaml") :> GoodFile(Doc("inventory", <<>>, <<"Item">>, <<>>)) }

ExtraDirs == { <<>>, <<Lib1>> }

(* nothing resolved yet, whichever command runs *)
NothingResolved ==
    /\ root_model = EmptyModel
    /\ imported_models = <<>>
    /\ import_graph = EmptyDict
    /\ file_map = EmptyDict
    /\ issues = <<>>
    /\ loaded_models = EmptyDict
    /\ stack = <<>>
    /\ loads = <<>>
    /\ lookups = <<>>
    /\ applied = <<>>
    /\ summary = NoSummary
    /\ returned = NoReturn
    /\ stored_writes = {}

(* resolved = resolve_model(args.model, search_dirs=search_dirs) *)
StartResolve(extra) ==
    /\ command = Resolve
    /\ search_dirs = extra
    /\ root_path = RootFile
    /\ pc = "start"
    /\ model_files = <<>>

(* lines 439-451 of resolve_project: the files, the directories *)
StartResolveProject(extra) ==
    /\ command = ResolveProject
    /\ search_dirs = <<RootDir>> \o extra
    /\ root_path = NoPath
    /\ pc = "project"
    /\ model_files = ModelFilesUnder(RootDir, disk)

InitProject ==
    /\ disk \in TreeDisks
    /\ \E extra \in ExtraDirs : StartResolve(extra) \/ StartResolveProject(extra)
    /\ NothingResolved
    /\ results = <<>>
    /\ alone = <<>>
    /\ NoExitYet
    /\ NoDdl
    /\ document = NoDocument
    /\ NothingCompiled

NextProject ==
    \/ Next
    \/ CallResolveModel
    \/ StoreResult
    \/ ReturnResults
    \/ cmd_resolve
    \/ cmd_resolve_project
    \/ ResolveAlone
    \/ StoreAlone

SpecProject == InitProject /\ [][NextProject]_vars

-----------------------------------------------------------------------------
(* the issues a command has collected when it returns *)
Collected ==
    IF command.name = "resolve" THEN issues
    ELSE Flatten([i \in DOMAIN results |-> results[i].result.issues])

\* C24 (as stated): `resolve` and `resolve-project` return 1 exactly when
\* some collected resolution issue has severity error and 0 otherwise; a
\* resolution whose issues are all warnings returns 0 in both commands.
C24_ExitCodes ==
    (command.name \in {"resolve", "resolve-project"} /\ exit_code # NoExit) =>
        /\ exit_code \in {0, 1}
        /\ (exit_code = 1) = AnyError(Collected)

\* C25: resolve_project returns one result for each file *.model.yaml or
\* *.model.yml at any depth below the project directory and for no other
\* file, and the result for a file is the result of resolve_model called on
\* that file alone with the project directory and then the caller's
\* directories as search directories.
C25_IsolatedResults ==
    /\ (command.name = "resolve-project" /\ pc = "resolved") =>
          /\ {results[i].path : i \in DOMAIN results}
                = {p \in DOMAIN disk : IsPrefix(RootDir, p.dir)}
          /\ \A i, j \in DOMAIN results : results[i].path = results[j].path => i = j
    /\ \A i \in DOMAIN alone : alone[i] = results[i]

\* C25 witness: a project of three files was resolved and each file then
\* resolved alone; orders imports shared_dimensions, which imports inventory,
\* a file that is resolved before them and does not load.
C25_Witness ==
    /\ Len(results) = 3
    /\ Len(alone) = 3
    /\ pc = "resolved"
    /\ results[1].path = ModelFile(RootDir \o <<".git">>, "inventory", "yaml")
    /\ results[1].result.issues # <<>>
    /\ results[3].path = RootFile
    /\ Len(results[3].result.imported_models) = 1
    /\ results[2].result.issues # <<>>
    /\ results[3].result.issues # results[2].result.issues

-----------------------------------------------------------------------------
\* C26 (as stated): when resolve_model has returned, for every import entry
\* of the root with an entities filter F (a non-empty list) whose model was
\* loaded, the model stored in imported_models under the entry's alias has no
\* entity whose name is not in F, also when other import entries of the tree
\* import the same model under the same alias without a filter or with
\* another one (no entry imports another model under that alias).
C26_FilterHolds ==
    (Returned /\ RootLoadedOk) =>
        \A i \in DOMAIN root_model.imports :
            LET imp == root_model.imports[i]
            IN (/\ imp.has_entities /\ imp.entities # <<>>
                /\ imp.model \in DOMAIN loaded_models
                /\ \A w \in Range(Walked) :
                      AliasOf(w.imp) = AliasOf(imp) => w.imp.model = imp.model)
                  => Range(DictGet(imported_models, AliasOf(imp)).entities) \subseteq Range(imp.entities)

-----------------------------------------------------------------------------
(* resolve_model, or the caller that takes the summary, has a step to take *)
Running == pc # "summarized"

(* The interpreter runs the single thread on: weak fairness of Next,      *)
(* WF_vars(Next), with ENABLED <<Next>>_vars written out as Running        *)
Fairness == []<>(~Running) \/ []<><<Next>>_vars

SpecLive == Init /\ [][Next]_vars /\ Fairness

(* _resolve_imports_recursive calls itself: a frame is put on a stack that *)
(* is not empty                                                            *)
Descends == stack # <<>> /\ Len(stack') = Len(stack) + 1

\* C27: resolve_model returns on every project, self-imports and import
\* cycles included; _resolve_imports_recursive calls itself for the imports
\* of a model only in the step that puts the model's name into the cache
\* for the first time; and no call is deeper than depth 11, the ceiling of
\* 10 plus one.
C27_Terminates ==
    /\ <>Returned
    /\ [][Descends => LET m == stack'[Len(stack')].model_name
                      IN m \notin DOMAIN loaded_models /\ m \in DOMAIN loaded_models']_vars
    /\ [](/\ Len(stack) <= max_depth + 2
          /\ \A i \in DOMAIN stack : stack[i].depth = i - 1 /\ stack[i].depth <= max_depth + 1)

\* C27 witness: resolve_model has returned from a root that is imported
\* back by the model it imports, with the cycle reported; and from a chain
\* that ran into the ceiling.
C27_Witness ==
    /\ Returned
    /\ \/ /\ IssuesOf("CIRCULAR_IMPORT") # <<>>
          /\ root_model.name \in DOMAIN loaded_models
          /\ Cardinality(DOMAIN loaded_models) >= 2
       \/ IssuesOf("IMPORT_DEPTH_EXCEEDED") # <<>>


\* C28: in the graph summary every model entry, the root and each imported
\* model, has as `file` the non-empty path of the file the model was loaded
\* from, also when the imported file declares another model.name than the
\* name it was imported by.
C28_SummaryFiles ==
    (pc = "summarized" /\ RootLoadedOk) =>
        \A k \in DOMAIN summary.models :
            LET m == summary.models[k]
            IN /\ m.file # NoPath
               /\ m.is_root => m.file = root_path
               /\ ~m.is_root =>
                    \E a \in Range(applied) :
                        /\ a.alias = m.alias
                        /\ \E l \in Range(loads) : l.name = a.imp.model /\ l.path = m.file


\* C29: after resolve_model the root model is not one of the imported
\* models: no alias of imported_models maps to a copy of the root document,
\* the summary has no second entry for the root, and no entity of the root is
\* reported as DUPLICATE_CROSS_MODEL_ENTITY against the root itself, also when
\* an imported model imports the root back.
C29_RootNotImported ==
    (Returned /\ RootLoadedOk) =>
        LET root_name == NameOr(root_model, "unknown")
        IN /\ \A k \in DOMAIN imported_models : imported_models[k].model # root_model
           /\ \A k \in DOMAIN summary.models :
                ~summary.models[k].is_root =>
                    ~(/\ summary.models[k].name = root_name
                      /\ summary.models[k].entities = root_model.entities)
           /\ \A k \in DOMAIN issues :
                issues[k].code = "DUPLICATE_CROSS_MODEL_ENTITY" =>
                    ~(issues[k].args[2] = root_name /\ issues[k].args[3] = root_name)

-----------------------------------------------------------------------------
(***************************************************************************)
(* import_sql_ddl (dm_core/importers.py).  The SQL text is a sequence of   *)
(* CREATE TABLE statements; the body of a statement is the list of         *)
(* definitions _split_top_level cuts it into, a definition is its words    *)
(* and the names between its first pair of parentheses.  The texts have no *)
(* views, indexes, foreign keys, defaults or checks.                       *)
(***************************************************************************)
Definition(words, args) == [words |-> words, args |-> args]

CreateTable(table, body) == [table |-> table, body |-> body]

(* str.lower() on the words of the texts *)
Lower(w) ==
    CASE w = "PRIMARY" -> "primary"
      [] w = "KEY" -> "key"
      [] w = "NOT" -> "not"
      [] w = "NULL" -> "null"
      [] w = "UNIQUE" -> "unique"
      [] w = "CONSTRAINT" -> "constraint"
      [] w = "INTEGER" -> "integer"
      [] OTHER -> w

LowerAll(words) == [i \in DOMAIN words |-> Lower(words[i])]

(* lowered.startswith(prefix) *)
StartsWith(words, prefix) ==
    Len(words) >= Len(prefix) /\ SubSeq(words, 1, Len(prefix)) = prefix

(* sub in rest_lower *)
Contains(words, sub) ==
    \E i \in 1..(Len(words) - Len(sub) + 1) : SubSeq(words, i, i + Len(sub) - 1) = sub

(* _to_pascal on the table names of the texts *)
_to_pascal(name) ==
    CASE name = "orders" -> "Orders"
      [] name = "customers" -> "Customers"
      [] OTHER -> name

(* lines 132-137: a table-level PRIMARY KEY clause *)
IsPrimaryKeyClause(definition) == StartsWith(LowerAll(definition.words), <<"primary", "key">>)

(* lines 162-164: the column pattern needs a name and a type *)
IsColumn(definition) == ~IsPrimaryKeyClause(definition) /\ Len(definition.words) >= 2

(* lines 166-182: the field of a column; a key that is not set is FALSE *)
ColumnField(definition) ==
    LET rest_lower == LowerAll(SubSeq(definition.words, 3, Len(definition.words)))
    IN [name |-> definition.words[1],
        type |-> Lower(definition.words[2]),
        nullable |-> ~Contains(rest_lower, <<"not", "null">>),
        primary_key |-> Contains(rest_lower, <<"primary", "key">>),
        unique |-> Contains(rest_lower, <<"unique">>)]

(* for definition in _split_top_level(body) *)
RECURSIVE ParseBody(_, _, _)
ParseBody(body, i, acc) ==
    IF i > Len(body) THEN acc
    ELSE LET definition == body[i]
         IN IF IsPrimaryKeyClause(definition)
            THEN ParseBody(body, i + 1, [acc EXCEPT !.keys = @ \o definition.args])
            ELSE IF IsColumn(definition)
            THEN ParseBody(body, i + 1, [acc EXCEPT !.fields = Append(@, ColumnField(definition))])
            ELSE ParseBody(body, i + 1, acc)

(* for match in CREATE_TABLE_RE.finditer(ddl_text): entity_fields and      *)
(* primary_keys, by entity name                                            *)
RECURSIVE ParseTables(_, _, _)
ParseTables(text, i, acc) ==
    IF i > Len(text) THEN acc
    ELSE LET entity_name == _to_pascal(text[i].table)
             before == [fields |-> Get(acc.entity_fields, entity_name, <<>>),
                        keys |-> Get(acc.primary_keys, entity_name, <<>>)]
             after == ParseBody(text[i].body, 1, before)
         IN ParseTables(text, i + 1,
                [entity_fields |-> (entity_name :> after.fields) @@ acc.entity_fields,
                 primary_keys |-> (entity_name :> after.keys) @@ acc.primary_keys])

(* lines 246-252: the columns of the table-level clauses *)
WithPrimaryKeys(fields, keys) ==
    LET pk_set == {value \in Range(keys) : value # ""}
    IN [k \in DOMAIN fields |->
          IF fields[k].name \in pk_set
          THEN [fields[k] EXCEPT !.primary_key = TRUE, !.nullable = FALSE]
          ELSE fields[k]]

(* the model returned; the description of an entity carries the date of   *)
(* the day and is left out                                                 *)
import_sql_ddl(text) ==
    LET parsed == ParseTables(text, 1, [entity_fields |-> EmptyDict, primary_keys |-> EmptyDict])
        names == SortedNames(DOMAIN parsed.entity_fields)
    IN [present |-> {"model", "entities", "relationships", "governance", "rules"},
        entities |-> [k \in DOMAIN names |->
                        [name |-> names[k], type |-> "table",
                         fields |-> WithPrimaryKeys(parsed.entity_fields[names[k]],
                                                    parsed.primary_keys[names[k]])]],
        relationships |-> <<>>,
        rules |-> <<>>]

(* model = import_sql_ddl(ddl) *)
ImportSqlDdl ==
    /\ ddl_model = [present |-> {}]
    /\ ddl_model' = import_sql_ddl(ddl_text)
    /\ UNCHANGED <<ddl_text, cli_vars, project_vars, resolver_vars, view_vars, canon_vars>>


(* the texts import_sql_ddl is run on *)
ColumnNames == {"order_id", "email"}

ColumnRests ==
    { <<>>, <<"NOT", "NULL">>, <<"PRIMARY", "KEY">>, <<"NOT", "NULL", "PRIMARY", "KEY">>,
      <<"UNIQUE">> }

KeyArgs == { <<"order_id">>, <<"order_id", "email">>, <<"">> }

Definitions ==
    {Definition(<<n, "INTEGER">> \o r, <<>>) : n \in ColumnNames, r \in ColumnRests}
    \cup {Definition(<<"PRIMARY", "KEY">>, a) : a \in KeyArgs}
    \cup {Definition(<<"primary", "key">>, <<"email">>),
          Definition(<<"CONSTRAINT", "pk", "PRIMARY", "KEY">>, <<"order_id">>)}

Bodies == SeqsUpTo(Definitions, MaxDefs)

(* a second statement, for the same table or for another one *)
SecondTables ==
    {CreateTable(t, b) : t \in {"orders", "customers"},
                         b \in { <<Definition(<<"email", "INTEGER">>, <<>>)>>,
                                 <<Definition(<<"PRIMARY", "KEY">>, <<"order_id">>)>> }}

DdlTexts ==
    {<<CreateTable("orders", b)>> : b \in Bodies}
    \cup {<<CreateTable("orders", b), t>> : b \in SeqsUpTo(Definitions, 1), t \in SecondTables}

InitDdl ==
    /\ NoResolution
    /\ document = NoDocument
    /\ NothingCompiled
    /\ command = NoCommand
    /\ NoExitYet
    /\ NoProject
    /\ ddl_text \in DdlTexts
    /\ ddl_model = [present |-> {}]

NextDdl == ImportSqlDdl

SpecDdl == InitDdl /\ [][NextDdl]_vars

(* the fields of the entity of a table in the returned model *)
FieldsOf(table) ==
    LET e == CHOOSE k \in DOMAIN ddl_model.entities :
                 ddl_model.entities[k].name = _to_pascal(table)
    IN Range(ddl_model.entities[e].fields)

\* C30: in the model import_sql_ddl returns, each field with primary_key =
\* true has nullable = false, whether the key is declared inline on the
\* column or by a table-level PRIMARY KEY clause, and each column named in a
\* table-level PRIMARY KEY clause has primary_key = true.
C30_PrimaryKeyNotNull ==
    ddl_model.present # {} =>
        /\ \A k \in DOMAIN ddl_model.entities :
             \A f \in Range(ddl_model.entities[k].fields) : f.primary_key => ~f.nullable
        /\ \A t \in Range(ddl_text) :
             \A d \in Range(t.body) :
                (Len(d.words) >= 2 /\ Lower(d.words[1]) = "primary" /\ Lower(d.words[2]) = "key") =>
                    \A f \in FieldsOf(t.table) : f.name \in Range(d.args) => f.primary_key

====
